---------------------------- MODULE Spec2Model ----------------------------
(***************************************************************************)
(* SnapFarm (metaboai-react): the heuristic disease mapper                 *)
(* (utils/modelHelpers), the Inference component, the diagnose workflow of *)
(* AppLayout and the local-storage diagnosis history.                      *)
(*                                                                         *)
(* Numbers.  A JavaScript number is modelled as an integer count of        *)
(* millionths (Unit = 1.0), with NaN as a distinguished value.  A missing  *)
(* object key or field reads as undefined, which every arithmetic          *)
(* operator of the code turns into NaN, so it is stored as NaN.            *)
(* A confidence produced by a division keeps numerator and denominator.    *)
(* Strings that the code searches (class names, keywords) are sequences    *)
(* of one-character strings.                                               *)
(***************************************************************************)
EXTENDS Integers, Sequences, FiniteSets, TLC

VARIABLES
  \* ---- one call of the mapper / of the prediction pipeline
  mPreds,      \* argument mobilenetPredictions
  mLabels,     \* argument labels
  mTopK,       \* argument topK
  mCall,       \* "none" | "simulate" | "pipeline": which call has returned
  mModel,      \* pipeline: "null" | "mobilenet" | "custom"
  mThrew,      \* the call went through the catch block
  mResult      \* the returned list

mapperVars == <<mPreds, mLabels, mTopK, mCall, mModel, mThrew, mResult>>

VARIABLES
  \* ---- AppLayout: one instance serves /diagnose, /dashboard and /chat
  currentView,            \* prop view
  user,                   \* useAuth().user: [id, theme]
  selectedImage,
  predictions,
  processedImageUrl,
  error,
  lastSavedDiagnosisId,
  showAdditionalDataForm,
  additionalData,
  readyForInference,
  hasEnvironmentalData,
  processingRef,          \* processingRef.current
  resetTimers             \* pending setTimeout(..., 100) callbacks

layoutVars ==
  <<currentView, user, selectedImage, predictions, processedImageUrl, error,
    lastSavedDiagnosisId, showAdditionalDataForm, additionalData,
    readyForInference, hasEnvironmentalData, processingRef, resetTimers>>

VARIABLES
  \* ---- Inference: module globals, the mounted instance, pending promises
  globalModelCache,
  globalModelStatus,
  mounted,                \* AppLayout currently renders <Inference>
  modelStatus,
  model,
  processedImageName,
  modelLoad,              \* "none" | "owned" | "orphaned": loadModel pending
  runs                    \* processImage calls that have not returned

inferenceVars ==
  <<globalModelCache, globalModelStatus, mounted, modelStatus, model,
    processedImageName, modelLoad, runs>>

VARIABLES
  \* ---- localStorage
  diagnosisRecords,       \* key snapfarm_diagnosis_records
  dashboardData,          \* key snapfarm_dashboard_data
  diagnoses,              \* key snapfarm_diagnoses
  metrics,                \* key snapfarm_metrics
  quotaExceeded           \* setItem throws QuotaExceededError

storageVars == <<diagnosisRecords, dashboardData, diagnoses, metrics, quotaExceeded>>

VARIABLES
  \* ---- history of the behaviour
  uploads,                \* upload events so far
  runsStarted,            \* processImage calls so far
  recorded,               \* records written to snapfarm_diagnosis_records
  saved,                  \* results written to snapfarm_diagnoses
  classifierCalls,        \* per upload: classifier calls made
  resultsDelivered,       \* per upload: onResults calls made
  delivered               \* the callback the last step made, if any

historyVars ==
  <<uploads, runsStarted, recorded, saved, classifierCalls, resultsDelivered,
    delivered>>

appVars == <<layoutVars, inferenceVars, storageVars, historyVars>>

VARIABLES
  \* ---- one lookup of the recommendation tables for a ranked list
  cardPredictions,        \* the list handed to onResults and to ResultsCard
  lookupDone,
  diseaseInfo,            \* getDiseaseInfoFromPredictions(predictions)
  environmentMap,         \* getEnvironmentMap(top label)
  businessMetrics         \* calculateBusinessMetrics(top label, true, 1)

adviceVars ==
  <<cardPredictions, lookupDone, diseaseInfo, environmentMap, businessMetrics>>

VARIABLES
  \* ---- Dashboard, rendered while currentView = "dashboard"
  dashboardMetrics,       \* state metrics
  recentDiagnoses,
  dashboardLoading,       \* state loading
  showsEnvironmentalData, \* state hasEnvironmentalData
  loadedNow               \* loadData ran in the last step

dashboardVars ==
  <<dashboardMetrics, recentDiagnoses, dashboardLoading, showsEnvironmentalData,
    loadedNow>>

VARIABLES
  \* ---- ImageUpload
  uploadError,            \* state error
  offeredFile,            \* the file last handed to handleFileSelect
  filesOffered            \* calls of handleFileSelect so far

uploadVars == <<uploadError, offeredFile, filesOffered>>

\* the components beside the diagnose workflow
\* AuthContext, the simpleAuthService it calls, and the router
VARIABLES
  authState,              \* AuthContext: [user, loading, error]
  storedUsers,            \* localStorage 'snapfarm_users'
  location,               \* the path the router renders
  authCalls,              \* service calls awaiting hashPassword
  authStarted,            \* calls started so far (also the clock of Date.now())
  settled                 \* history: how the last call that returned ended

authVars == <<authState, storedUsers, location, authCalls, authStarted, settled>>

VARIABLES
  \* ---- services/authService with tokens: localStorage, clock, calls
  usersDb,                \* key snapfarm_users_db
  authTokens,             \* key snapfarm_auth_tokens
  currentToken,           \* key snapfarm_current_token, "" when absent
  clock,                  \* Date.now()
  tokenCalls,             \* calls waiting for hashPassword
  tokenStarted,           \* calls so far
  tokenReturned,          \* what the last call returned
  revoked                 \* tokens signed out and not issued again since

tokenVars ==
  <<usersDb, authTokens, currentToken, clock, tokenCalls, tokenStarted,
    tokenReturned, revoked>>

VARIABLES
  \* ---- services/fileAuthService: localStorage, the cookie, calls
  fileUsers,              \* key snapfarm_file_users
  fileSessions,           \* key snapfarm_file_sessions
  sessionCookie,          \* cookie snapfarm_session, "" when absent
  currentSession,         \* key snapfarm_current_session, "" when absent
  cookieTimers,           \* pending setTimeout(..., 100) of setCookie
  fileCalls,              \* calls waiting for a promise
  fileStarted,            \* calls so far
  fileReturned            \* what the last call returned

fileVars ==
  <<fileUsers, fileSessions, sessionCookie, currentSession, cookieTimers,
    fileCalls, fileStarted, fileReturned>>

VARIABLES
  \* ---- services/llmService: the LLMService instance, calls
  qaModel,                \* this.qaModel
  isLoading,              \* this.isLoading
  conversationHistory,    \* this.conversationHistory.length
  llmCalls,               \* calls waiting for a promise
  llmStarted,             \* calls so far
  llmReturned             \* how the last call settled

llmVars ==
  <<qaModel, isLoading, conversationHistory, llmCalls, llmStarted, llmReturned>>

VARIABLES
  \* ---- public/sw.js: the caches, the handlers of fetch events
  swCaches,               \* cache name -> stored responses
  swInstalled,            \* the install event was handled
  swHandlers,             \* strategies waiting for a promise
  swStarted,              \* fetch events so far
  swServed                \* how the last request was answered

swVars == <<swCaches, swInstalled, swHandlers, swStarted, swServed>>

serviceVars == <<tokenVars, fileVars, llmVars, swVars>>

pageVars == <<adviceVars, dashboardVars, authVars, serviceVars>>

viewVars == <<pageVars, uploadVars>>

vars == <<mapperVars, appVars, viewVars>>

-----------------------------------------------------------------------------
(* Bounds of the model                                                     *)

\* longest classifier output handed to the mapper
MaxPreds == 2
\* largest requested K
MaxTopK == 3

-----------------------------------------------------------------------------
(* JavaScript numbers                                                      *)

Unit == 1000 * 1000
NaN == 0 - 1

IsNaN(x) == x = NaN
\* h hundredths, as in the literals 0.08, 0.12, 0.95
Dec(h) == h * (Unit \div 100)
Add(a, b) == IF IsNaN(a) \/ IsNaN(b) THEN NaN ELSE a + b
\* a * (n / d)
Times(a, n, d) == IF IsNaN(a) THEN NaN ELSE (a * n) \div d
MathMax(a, b) == IF IsNaN(a) \/ IsNaN(b) THEN NaN ELSE IF a >= b THEN a ELSE b
MathMin(a, b) == IF IsNaN(a) \/ IsNaN(b) THEN NaN ELSE IF a <= b THEN a ELSE b
\* n / d < h/100 and n / d > h/100; false when either operand is NaN
RatioLt(n, d, h) == ~IsNaN(n) /\ ~IsNaN(d) /\ n * 100 < h * d
RatioGt(n, d, h) == ~IsNaN(n) /\ ~IsNaN(d) /\ n * 100 > h * d
\* a / b as a fraction
Quotient(a, b) ==
  IF IsNaN(a) \/ IsNaN(b) THEN [num |-> NaN, den |-> NaN]
  ELSE [num |-> a, den |-> b]

Range(s) == { s[i] : i \in 1..Len(s) }
Min2(a, b) == IF a <= b THEN a ELSE b
Max2(a, b) == IF a >= b THEN a ELSE b

\* Array.prototype.slice(0, k)
SliceTo(s, k) ==
  IF k >= 0 THEN SubSeq(s, 1, Min2(k, Len(s)))
  ELSE SubSeq(s, 1, Max2(0, Len(s) + k))

-----------------------------------------------------------------------------
(* Strings                                                                 *)

toLowerCaseChar(c) ==
  CASE c = "A" -> "a"
    [] c = "B" -> "b"
    [] c = "C" -> "c"
    [] c = "D" -> "d"
    [] c = "E" -> "e"
    [] c = "F" -> "f"
    [] c = "G" -> "g"
    [] c = "H" -> "h"
    [] c = "I" -> "i"
    [] c = "J" -> "j"
    [] c = "K" -> "k"
    [] c = "L" -> "l"
    [] c = "M" -> "m"
    [] c = "N" -> "n"
    [] c = "O" -> "o"
    [] c = "P" -> "p"
    [] c = "Q" -> "q"
    [] c = "R" -> "r"
    [] c = "S" -> "s"
    [] c = "T" -> "t"
    [] c = "U" -> "u"
    [] c = "V" -> "v"
    [] c = "W" -> "w"
    [] c = "X" -> "x"
    [] c = "Y" -> "y"
    [] c = "Z" -> "z"
    [] OTHER -> c
toLowerCase(s) == [i \in 1..Len(s) |-> toLowerCaseChar(s[i])]

\* String.prototype.includes
includes(s, t) ==
  \E i \in 1..(Len(s) - Len(t) + 1) : SubSeq(s, i, i + Len(t) - 1) = t

\* class names the generic classifier may report
CN_broccoli == <<"b","r","o","c","c","o","l","i">>
CN_leaf_beetle == <<"l","e","a","f"," ","b","e","e","t","l","e">>
CN_brown_bear == <<"b","r","o","w","n"," ","b","e","a","r">>
CN_leopard == <<"l","e","o","p","a","r","d">>
CN_goldfish == <<"g","o","l","d","f","i","s","h">>
CN_Old_English_sheepdog == <<"O","l","d"," ","E","n","g","l","i","s","h"," ","s","h","e","e","p","d","o","g">>
CN_teapot == <<"t","e","a","p","o","t">>
ClassNames ==
  { CN_broccoli, CN_leaf_beetle, CN_brown_bear, CN_leopard,
    CN_goldfish, CN_Old_English_sheepdog, CN_teapot }

\* the className of an entry that has none (reading it gives undefined)
UndefinedName == <<"undefined">>

-----------------------------------------------------------------------------
(* modelHelpers: simulatePlantDiseaseFromMobileNet                         *)

DEFAULT_LABELS ==
  << "Healthy", "Early Blight", "Late Blight", "Leaf Curl", "Mosaic Virus",
     "Septoria Leaf Spot", "Spider Mites", "Target Spot",
     "Yellow Leaf Curl Virus", "Bacterial Spot" >>

\* target vocabularies handed to the mapper
Vocabularies ==
  { DEFAULT_LABELS,
    << >>,
    << "Early Blight", "Healthy" >>,
    << "Leaf Curl", "Powdery Mildew" >> }

\* every key specificDiseaseScores can hold
ScoreKeys == Range(DEFAULT_LABELS) \cup UNION { Range(v) : v \in Vocabularies }

diseaseIndicators ==
  [ healthy |->
      { <<"b","r","o","c","c","o","l","i">>, <<"c","a","b","b","a","g","e">>,
        <<"l","e","t","t","u","c","e">>, <<"a","r","t","i","c","h","o","k","e">>,
        <<"c","a","u","l","i","f","l","o","w","e","r">>,
        <<"s","p","i","n","a","c","h">>, <<"c","u","c","u","m","b","e","r">> },
    vegetation |->
      { <<"l","e","a","f">>, <<"p","l","a","n","t">>, <<"t","r","e","e">>,
        <<"f","l","o","w","e","r">>, <<"h","e","r","b">>,
        <<"v","e","g","e","t","a","b","l","e">> },
    blight |->
      { <<"m","u","s","h","r","o","o","m">>, <<"f","u","n","g","u","s">>,
        <<"m","o","l","d">>, <<"r","u","s","t">>, <<"l","i","c","h","e","n">>,
        <<"m","o","s","s">>, <<"w","o","o","d">>, <<"b","a","r","k">>,
        <<"l","o","g">>, <<"s","t","u","m","p">>, <<"d","e","a","d">>,
        <<"d","r","y">>, <<"b","r","o","w","n">>, <<"s","o","i","l">>,
        <<"d","i","r","t">>, <<"c","o","m","p","o","s","t">>,
        <<"m","u","l","c","h">>, <<"d","e","c","a","y">> },
    spots |->
      { <<"s","p","o","t">>, <<"d","o","t">>, <<"s","t","a","i","n">>,
        <<"p","a","t","c","h">>, <<"l","e","s","i","o","n">>, <<"m","a","r","k">>,
        <<"l","e","o","p","a","r","d">>, <<"c","h","e","e","t","a","h">>,
        <<"d","a","l","m","a","t","i","a","n">>, <<"p","o","l","k","a">>,
        <<"p","a","t","t","e","r","n">>,
        <<"c","a","m","o","u","f","l","a","g","e">>,
        <<"m","i","l","i","t","a","r","y">>, <<"t","e","x","t","u","r","e">> },
    yellowing |->
      { <<"b","a","n","a","n","a">>, <<"l","e","m","o","n">>, <<"c","o","r","n">>,
        <<"y","e","l","l","o","w">>, <<"g","o","l","d">>, <<"a","m","b","e","r">>,
        <<"s","t","r","a","w">>, <<"h","a","y">>, <<"w","h","e","a","t">>,
        <<"g","r","a","i","n">>, <<"c","e","r","e","a","l">>, <<"p","a","l","e">> },
    browning |->
      { <<"b","r","o","w","n">>, <<"c","h","o","c","o","l","a","t","e">>,
        <<"c","o","f","f","e","e">>, <<"w","o","o","d">>, <<"b","a","r","k">>,
        <<"l","e","a","t","h","e","r">>, <<"t","o","b","a","c","c","o">>,
        <<"c","i","n","n","a","m","o","n">>, <<"r","u","s","t">>,
        <<"b","r","o","n","z","e">>, <<"c","o","p","p","e","r">>,
        <<"d","r","i","e","d">>, <<"w","i","t","h","e","r","e","d">>,
        <<"a","u","t","u","m","n">>, <<"f","a","l","l">> },
    damage |->
      { <<"h","o","l","e">>, <<"t","e","a","r">>, <<"c","r","a","c","k">>,
        <<"b","r","e","a","k">>, <<"d","a","m","a","g","e">>, <<"w","o","r","n">>,
        <<"o","l","d">>, <<"a","g","e","d">>,
        <<"w","e","a","t","h","e","r","e","d">>, <<"e","r","o","d","e","d">>,
        <<"e","a","t","e","n">>, <<"b","i","t","e">>, <<"c","h","e","w","e","d">>,
        <<"p","e","r","f","o","r","a","t","e","d">> },
    viral |->
      { <<"f","a","b","r","i","c">>, <<"t","e","x","t","i","l","e">>,
        <<"p","a","t","t","e","r","n">>, <<"m","o","s","a","i","c">>,
        <<"t","i","l","e">>, <<"q","u","i","l","t">>,
        <<"p","a","t","c","h","w","o","r","k">>,
        <<"v","a","r","i","e","g","a","t","e","d">>,
        <<"m","o","t","t","l","e","d">>,
        <<"c","a","m","o","u","f","l","a","g","e">>,
        <<"a","b","s","t","r","a","c","t">>, <<"a","r","t">> } ]
Buckets == DOMAIN diseaseIndicators

\* diseaseIndicators.<bucket>.some(indicator => className.includes(indicator)),
\* with className = pred.className.toLowerCase()
bucketMatches ==
  [ c \in ClassNames |->
      [ b \in Buckets |->
          \E indicator \in diseaseIndicators[b] :
             includes(toLowerCase(c), indicator) ] ]

isPlantRelated ==
  [ c \in ClassNames |->
      \/ bucketMatches[c].healthy
      \/ bucketMatches[c].vegetation
      \/ includes(toLowerCase(c), <<"g","r","e","e","n">>)
      \/ includes(toLowerCase(c), <<"l","e","a","f">>)
      \/ includes(toLowerCase(c), <<"p","l","a","n","t">>) ]

FALLBACK_PREDICTIONS ==
  << [label |-> "Early Blight", confidence |-> [num |-> Dec(50), den |-> Unit]],
     [label |-> "Late Blight",  confidence |-> [num |-> Dec(30), den |-> Unit]],
     [label |-> "Healthy",      confidence |-> [num |-> Dec(20), den |-> Unit]] >>

\* the initial, disease-biased score of a label
initialScore(label) ==
  IF label = "Healthy" THEN Dec(8)
  ELSE IF label = "Early Blight" \/ label = "Late Blight" THEN Dec(12)
  ELSE Dec(10)

initialScores(labels) ==
  [ k \in ScoreKeys |-> IF k \in Range(labels) THEN initialScore(k) ELSE NaN ]

\* specificDiseaseScores[key] += probability * (t / 10)
plusEq(scores, key, probability, t) ==
  [scores EXCEPT ![key] = Add(@, Times(probability, t, 10))]

\* specificDiseaseScores[key] *= t / 10
timesEq(scores, key, t) == [scores EXCEPT ![key] = Times(@, t, 10)]

\* the rule of each keyword bucket: applied when the class name matches
healthyRule(matches, s, p) ==
  IF matches THEN plusEq(s, "Healthy", p, 6) ELSE s

vegetationRule(matches, s, p) ==
  IF matches
  THEN plusEq(plusEq(plusEq(plusEq(s,
         "Healthy", p, 2), "Early Blight", p, 4),
         "Late Blight", p, 3), "Septoria Leaf Spot", p, 2)
  ELSE s

blightRule(matches, s, p) ==
  IF matches
  THEN timesEq(plusEq(plusEq(s,
         "Early Blight", p, 12), "Late Blight", p, 10), "Healthy", 3)
  ELSE s

spotsRule(matches, s, p) ==
  IF matches
  THEN plusEq(plusEq(plusEq(plusEq(s,
         "Septoria Leaf Spot", p, 8), "Target Spot", p, 7),
         "Bacterial Spot", p, 6), "Early Blight", p, 4)
  ELSE s

yellowingRule(matches, s, p) ==
  IF matches
  THEN plusEq(plusEq(plusEq(s,
         "Yellow Leaf Curl Virus", p, 8), "Mosaic Virus", p, 6),
         "Early Blight", p, 3)
  ELSE s

browningRule(matches, s, p) ==
  IF matches
  THEN timesEq(plusEq(plusEq(s,
         "Early Blight", p, 10), "Late Blight", p, 8), "Healthy", 4)
  ELSE s

damageRule(matches, s, p) ==
  IF matches
  THEN plusEq(plusEq(plusEq(s,
         "Spider Mites", p, 7), "Leaf Curl", p, 5), "Early Blight", p, 4)
  ELSE s

viralRule(matches, s, p) ==
  IF matches
  THEN plusEq(plusEq(s,
         "Mosaic Virus", p, 8), "Yellow Leaf Curl Virus", p, 6)
  ELSE s

\* x += probability * (t / 10) when the bucket matches
plusEqIf(matches, x, p, t) == IF matches THEN Add(x, Times(p, t, 10)) ELSE x

\* one iteration of mobilenetPredictions.forEach
analyzePrediction(acc, pred) ==
  LET \* pred.probability: tenths in the input, undefined read as NaN
      p == Times(pred.probability, Unit, 10)
      m == bucketMatches[pred.className]
  IN [ scores |->
         viralRule(m.viral,
           damageRule(m.damage,
             browningRule(m.browning,
               yellowingRule(m.yellowing,
                 spotsRule(m.spots,
                   blightRule(m.blight,
                     vegetationRule(m.vegetation,
                       healthyRule(m.healthy, acc.scores, p),
                       p), p), p), p), p), p), p),
       totalConfidence |-> Add(acc.totalConfidence, p),
       healthyIndicators |-> plusEqIf(m.healthy, acc.healthyIndicators, p, 10),
       diseaseIndicatorScore |->
         plusEqIf(m.viral,
           plusEqIf(m.damage,
             plusEqIf(m.browning,
               plusEqIf(m.yellowing,
                 plusEqIf(m.spots,
                   plusEqIf(m.blight, acc.diseaseIndicatorScore, p, 15),
                   p, 8), p, 6), p, 10), p, 6), p, 5),
       plantRelatedScore |->
         plusEqIf(isPlantRelated[pred.className], acc.plantRelatedScore, p, 10) ]

RECURSIVE analyzeAll(_, _, _)
analyzeAll(acc, preds, i) ==
  IF i > Len(preds) THEN acc
  ELSE analyzeAll(analyzePrediction(acc, preds[i]), preds, i + 1)

\* (mutant) the overwrite with Late Blight no higher than Healthy
lowPlantScore_lateBlightLow(label) ==
  IF label = "Healthy" THEN Dec(20)
  ELSE IF label = "Early Blight" THEN Dec(40)
  ELSE IF label = "Late Blight" THEN Dec(20)
  ELSE Dec(15)

\* the overwrite applied when plantRatio < 0.15
lowPlantScore(label) ==
  IF label = "Healthy" THEN Dec(20)
  ELSE IF label = "Early Blight" THEN Dec(40)
  ELSE IF label = "Late Blight" THEN Dec(25)
  ELSE Dec(15)

\* Math.max(lo, Math.min(hi, x)) per label
clampScore(label, x) ==
  IF label = "Healthy" THEN MathMax(Dec(2), MathMin(Dec(70), x))
  ELSE MathMax(Dec(5), MathMin(Dec(95), x))

\* stable sort by (b.confidence - a.confidence): an entry moves in front of
\* the entries whose confidence is strictly smaller; a NaN difference keeps
\* the order
sortsBefore(b, a) ==
  /\ ~IsNaN(b.confidence.num) /\ ~IsNaN(a.confidence.num)
  /\ b.confidence.num > a.confidence.num

\* (mutant) no sorting: the entries stay in label order
insertSorted_unsorted(sorted, x) == Append(sorted, x)

RECURSIVE insertSorted(_, _)
insertSorted(sorted, x) ==
  IF sorted = << >> THEN << x >>
  ELSE LET last == sorted[Len(sorted)]
       IN IF sortsBefore(x, last)
          THEN Append(insertSorted(SubSeq(sorted, 1, Len(sorted) - 1), x), last)
          ELSE Append(sorted, x)

RECURSIVE sortByConfidence(_, _)
sortByConfidence(list, n) ==
  IF n = 0 THEN << >>
  ELSE insertSorted(sortByConfidence(list, n - 1), list[n])

RECURSIVE sumConfidence(_, _)
sumConfidence(list, n) ==
  IF n = 0 THEN 0 ELSE Add(sumConfidence(list, n - 1), list[n].confidence)

\* healthRatio > 0.5 && diseaseRatio < 0.1: boost Healthy, damp the others
boostHealthy(applies, scores) ==
  IF applies
  THEN [ k \in ScoreKeys |->
           IF k = "Healthy" THEN Times(scores[k], 13, 10)
           ELSE Times(scores[k], 8, 10) ]
  ELSE scores

\* diseaseRatio > 0.2
reduceHealthy(applies, scores) ==
  IF applies THEN timesEq(scores, "Healthy", 3) ELSE scores

\* diseaseRatio > 0.5: boost every disease, nearly eliminate Healthy
boostDiseases(applies, scores) ==
  IF applies
  THEN [ k \in ScoreKeys |->
           IF k = "Healthy" THEN Times(scores[k], 1, 10)
           ELSE Times(scores[k], 15, 10) ]
  ELSE scores

\* the adjustments applied when plantRatio >= 0.15 (or is NaN)
adjustScores(scores, healthyIndicators, diseaseIndicatorScore, total) ==
  boostDiseases(RatioGt(diseaseIndicatorScore, total, 50),
    reduceHealthy(RatioGt(diseaseIndicatorScore, total, 20),
      boostHealthy(RatioGt(healthyIndicators, total, 50)
                     /\ RatioLt(diseaseIndicatorScore, total, 10),
                   scores)))

\* the overwrite applied when plantRatio < 0.15, or else the adjustments
overwriteOrAdjust(acc, labels, total) ==
  IF RatioLt(acc.plantRelatedScore, total, 15)
  THEN [ k \in ScoreKeys |->
           IF k \in Range(labels) THEN lowPlantScore(k) ELSE acc.scores[k] ]
  ELSE adjustScores(acc.scores, acc.healthyIndicators,
                    acc.diseaseIndicatorScore, total)

\* (mutant) the clamp and the Healthy minimum without the random jitter
jitterAndClamp_noJitter(scores, randomFactor, healthyFloor) ==
  [ k \in ScoreKeys |->
      LET clamped == clampScore(k, scores[k])
      IN IF k = "Healthy" /\ healthyFloor THEN MathMax(Dec(10), clamped)
         ELSE clamped ]

\* the random jitter, then the clamp, then the Healthy minimum
jitterAndClamp(scores, randomFactor, healthyFloor) ==
  [ k \in ScoreKeys |->
      LET clamped == clampScore(k, Times(scores[k], randomFactor[k], 100))
      IN IF k = "Healthy" /\ healthyFloor THEN MathMax(Dec(10), clamped)
         ELSE clamped ]

\* labels.map to predictions, divided by their total
normalize(final, labels) ==
  LET scored == [ i \in 1..Len(labels) |->
                         [label |-> labels[i], confidence |-> final[labels[i]]] ]
      totalScore == sumConfidence(scored, Len(scored))
  IN [ i \in 1..Len(scored) |->
         [ label |-> scored[i].label,
           confidence |-> Quotient(scored[i].confidence, totalScore) ] ]

\* the numerators of a list of confidences, added up
RECURSIVE sumNum(_, _)
sumNum(list, n) == IF n = 0 THEN 0 ELSE sumNum(list, n - 1) + list[n].confidence.num

\* (mutant) the top K, normalised again over the entries kept
topKOf_renormalised(list, k) ==
  LET top == SliceTo(sortByConfidence(list, Len(list)), k)
  IN [ i \in 1..Len(top) |->
         [ label |-> top[i].label,
           confidence |-> Quotient(top[i].confidence.num, sumNum(top, Len(top))) ] ]

\* sort by confidence and return the top K
topKOf(list, k) == SliceTo(sortByConfidence(list, Len(list)), k)

\* the part of the try block after the forEach
finishSimulation(acc, labels, topK, randomFactor, total) ==
  topKOf(
    normalize(
      jitterAndClamp(overwriteOrAdjust(acc, labels, total), randomFactor,
                     RatioLt(acc.diseaseIndicatorScore, total, 30)),
      labels),
    topK)

\* (mutant) an empty list is treated as a failure too
simulateThrows_alsoOnEmpty(mobilenetPredictions) ==
  \/ mobilenetPredictions.isNull
  \/ mobilenetPredictions.items = << >>
  \/ \E i \in 1..Len(mobilenetPredictions.items) :
        mobilenetPredictions.items[i].className = UndefinedName

\* the try block throws: mobilenetPredictions.forEach on null/undefined, or
\* pred.className.toLowerCase() on an entry without className
simulateThrows(mobilenetPredictions) ==
  \/ mobilenetPredictions.isNull
  \/ \E i \in 1..Len(mobilenetPredictions.items) :
        mobilenetPredictions.items[i].className = UndefinedName

\* the try block; randomFactor[k] is the jitter factor of key k in hundredths
simulateTry(preds, labels, topK, randomFactor) ==
  LET acc == analyzeAll([ scores |-> initialScores(labels),
                          totalConfidence |-> 0,
                          healthyIndicators |-> 0,
                          diseaseIndicatorScore |-> 0,
                          plantRelatedScore |-> 0 ], preds, 1)
  IN finishSimulation(acc, labels, topK, randomFactor,
                      MathMax(acc.totalConfidence, Dec(10)))

simulatePlantDiseaseFromMobileNet(mobilenetPredictions, labels, topK, randomFactor) ==
  IF simulateThrows(mobilenetPredictions)
  THEN SliceTo(FALLBACK_PREDICTIONS, topK)
  ELSE simulateTry(mobilenetPredictions.items, labels, topK, randomFactor)

-----------------------------------------------------------------------------
(* modelHelpers: getTopKPredictions and runInference                       *)

\* tf.softmax(logits): the class weights e^logit over their sum
RECURSIVE sumWeights(_, _)
sumWeights(w, n) == IF n = 0 THEN 0 ELSE sumWeights(w, n - 1) + w[n]

getTopKPredictions(weights, labels, k) ==
  topKOf([ i \in 1..Len(labels) |->
             [ label |-> labels[i],
               confidence |-> Quotient(weights[i], sumWeights(weights, Len(weights))) ] ],
         k)

\* mdl, the model argument, is "mobilenet" (it has classify) or "custom"
runInference(mdl, classified, weights, labels, topK, randomFactor) ==
  IF mdl = "mobilenet"
  THEN simulatePlantDiseaseFromMobileNet(
         [isNull |-> FALSE, items |-> classified], labels, topK, randomFactor)
  ELSE getTopKPredictions(weights, labels, topK)

(* Inference: the prediction list processImage hands to onResults          *)

MOCK_PREDICTIONS ==
  << [label |-> "Early Blight", confidence |-> [num |-> Dec(85), den |-> Unit]],
     [label |-> "Healthy",      confidence |-> [num |-> Dec(12), den |-> Unit]],
     [label |-> "Late Blight",  confidence |-> [num |-> Dec(3),  den |-> Unit]] >>

INFERENCE_TOP_K == 3

\* mdl, the component's model, is "null" (mock mode), "mobilenet" or "custom"
rawPredictions(mdl, classified, weights, randomFactor) ==
  IF mdl = "null" THEN MOCK_PREDICTIONS
  ELSE runInference(mdl, classified, weights, DEFAULT_LABELS,
                    INFERENCE_TOP_K, randomFactor)

predictionsWithMetrics(raw) ==
  [ i \in 1..Len(raw) |->
      [className |-> raw[i].label, probability |-> raw[i].confidence] ]

-----------------------------------------------------------------------------
(* Inputs of the mapper                                                    *)

\* pred.probability in tenths
Probabilities == { 1, 6 }

WellFormedEntries == [className : ClassNames, probability : Probabilities]

MalformedEntries ==
  { [className |-> UndefinedName, probability |-> 6],
    [className |-> CN_leaf_beetle, probability |-> NaN],
    [className |-> CN_teapot, probability |-> NaN] }

SeqsUpTo(S, n) == UNION { [1..m -> S] : m \in 0..n }

\* what model.classify can return
ClassifierOutputs == SeqsUpTo(WellFormedEntries, MaxPreds)

MapperInputs ==
  { [isNull |-> TRUE, items |-> << >>] } \cup
  { [isNull |-> FALSE, items |-> l] :
      l \in SeqsUpTo(WellFormedEntries \cup MalformedEntries, MaxPreds) }

\* 0.95 + Math.random() * 0.1, in hundredths: the ends of the range
JitterValues == { 95, 105 }

\* jitter assignments: all keys alike, or one label against the others
\* (the factor of a key outside the vocabulary never reaches the result)
RandomFactors(labels) ==
  { [k \in ScoreKeys |-> a] : a \in JitterValues } \cup
  { [k \in ScoreKeys |-> IF k = j THEN a ELSE b] :
      j \in Range(labels), a \in JitterValues, b \in JitterValues }

-----------------------------------------------------------------------------
(* utils/diseaseMapping and utils/environmentMap: the fixed tables         *)

\* the characters of a label of the vocabulary
labelChars(label) ==
  CASE label = "Healthy" -> <<"H","e","a","l","t","h","y">>
    [] label = "Early Blight" -> <<"E","a","r","l","y"," ","B","l","i","g","h","t">>
    [] label = "Late Blight" -> <<"L","a","t","e"," ","B","l","i","g","h","t">>
    [] label = "Leaf Curl" -> <<"L","e","a","f"," ","C","u","r","l">>
    [] label = "Mosaic Virus" -> <<"M","o","s","a","i","c"," ","V","i","r","u","s">>
    [] label = "Septoria Leaf Spot" ->
         <<"S","e","p","t","o","r","i","a"," ","L","e","a","f"," ","S","p","o","t">>
    [] label = "Spider Mites" -> <<"S","p","i","d","e","r"," ","M","i","t","e","s">>
    [] label = "Target Spot" -> <<"T","a","r","g","e","t"," ","S","p","o","t">>
    [] label = "Yellow Leaf Curl Virus" ->
         <<"Y","e","l","l","o","w"," ","L","e","a","f"," ","C","u","r","l"," ",
           "V","i","r","u","s">>
    [] label = "Bacterial Spot" ->
         <<"B","a","c","t","e","r","i","a","l"," ","S","p","o","t">>

\* DISEASE_MAPPING: each entry by its name and severity
DISEASE_MAPPING ==
  [ k \in { "Healthy", "Early Blight", "Late Blight", "Blight", "Leaf Curl",
            "Mosaic Virus" } |->
      CASE k = "Healthy" -> [name |-> "Healthy Plant", severity |-> "low"]
        [] k = "Early Blight" -> [name |-> "Early Blight", severity |-> "high"]
        [] k = "Late Blight" -> [name |-> "Late Blight", severity |-> "high"]
        [] k = "Blight" -> [name |-> "Blight Disease", severity |-> "high"]
        [] k = "Leaf Curl" -> [name |-> "Tomato Leaf Curl Virus", severity |-> "medium"]
        [] k = "Mosaic Virus" -> [name |-> "Tomato Mosaic Virus", severity |-> "medium"] ]

getDiseaseInfo(className) ==
  IF className \in DOMAIN DISEASE_MAPPING
  THEN DISEASE_MAPPING[className] ELSE DISEASE_MAPPING["Healthy"]

\* pred.className.toLowerCase() !== 'healthy' && pred.probability > 0.15
isSignificantDisease(pred) ==
  /\ toLowerCase(labelChars(pred.className)) # <<"h","e","a","l","t","h","y">>
  /\ RatioGt(pred.probability.num, pred.probability.den, 15)

\* predictions.filter(...)[0], by its index in predictions (0: none)
RECURSIVE firstSignificant(_, _)
firstSignificant(list, i) ==
  IF i > Len(list) THEN 0
  ELSE IF isSignificantDisease(list[i]) THEN i
  ELSE firstSignificant(list, i + 1)

getDiseaseInfoFromPredictions(list) ==
  IF list = << >> THEN DISEASE_MAPPING["Healthy"]
  ELSE IF firstSignificant(list, 1) = 0 THEN DISEASE_MAPPING["Healthy"]
  ELSE IF list[firstSignificant(list, 1)].className \in DOMAIN DISEASE_MAPPING
  THEN DISEASE_MAPPING[list[firstSignificant(list, 1)].className]
  ELSE DISEASE_MAPPING["Healthy"]

\* litres, millilitres, dollars and scores are counted in thousandths
\* (h hundredths)
Milli(h) == h * 10

metricsOf(water, pesticide, cost, score) ==
  [ water_saved_est |-> water, pesticide_avoided_est |-> pesticide,
    cost_savings_est |-> cost, environmental_impact_score |-> score ]

\* DISEASE_ENVIRONMENT_MAP: each entry by its name, severity and metrics
DISEASE_ENVIRONMENT_MAP ==
  [ k \in { "Healthy", "Early Blight", "Late Blight", "Leaf Curl",
            "Mosaic Virus" } |->
      CASE k = "Healthy" ->
             [ disease_name |-> "Healthy Plant", severity_level |-> "low",
               business_metrics |->
                 metricsOf(Milli(520), 0, Milli(1250), Milli(1000)) ]
        [] k = "Early Blight" ->
             [ disease_name |-> "Early Blight (Alternaria solani)",
               severity_level |-> "medium",
               business_metrics |->
                 metricsOf(Milli(870), Milli(4500), Milli(2890), Milli(700)) ]
        [] k = "Late Blight" ->
             [ disease_name |-> "Late Blight (Phytophthora infestans)",
               severity_level |-> "critical",
               business_metrics |->
                 metricsOf(Milli(1230), Milli(7500), Milli(4560), Milli(600)) ]
        [] k = "Leaf Curl" ->
             [ disease_name |-> "Tomato Leaf Curl Virus", severity_level |-> "high",
               business_metrics |->
                 metricsOf(Milli(680), Milli(3500), Milli(2240), Milli(800)) ]
        [] k = "Mosaic Virus" ->
             [ disease_name |-> "Tomato Mosaic Virus", severity_level |-> "high",
               business_metrics |->
                 metricsOf(Milli(420), Milli(2500), Milli(1875), Milli(900)) ] ]

getEnvironmentMap(diseaseName) ==
  IF diseaseName \in DOMAIN DISEASE_ENVIRONMENT_MAP
  THEN DISEASE_ENVIRONMENT_MAP[diseaseName]
  ELSE DISEASE_ENVIRONMENT_MAP["Healthy"]

calculateBusinessMetrics(diseaseName, useSustainableActions, plantCount) ==
  LET baseMetrics == getEnvironmentMap(diseaseName).business_metrics
  IN  IF ~useSustainableActions
      THEN metricsOf(Times(baseMetrics.water_saved_est, 3, 10) * plantCount,
                     0,
                     Times(baseMetrics.cost_savings_est, 5, 10) * plantCount,
                     MathMax(Milli(100), baseMetrics.environmental_impact_score - Milli(400)))
      ELSE metricsOf(baseMetrics.water_saved_est * plantCount,
                     baseMetrics.pesticide_avoided_est * plantCount,
                     baseMetrics.cost_savings_est * plantCount,
                     baseMetrics.environmental_impact_score)

\* probabilities of a ranked list, in hundredths, highest first
RankedProbabilities == { <<85, 12, 3>>, <<40, 35, 25>>, <<14, 12, 10>> }

\* ranked top-3 lists over the vocabulary, as processImage hands them on
RankedLists ==
  { [ i \in 1..INFERENCE_TOP_K |->
        [ className |-> DEFAULT_LABELS[l[i]],
          probability |-> [num |-> Dec(p[i]), den |-> Unit] ] ] :
      l \in { m \in [1..INFERENCE_TOP_K -> 1..Len(DEFAULT_LABELS)] :
                m[1] # m[2] /\ m[1] # m[3] /\ m[2] # m[3] },
      p \in RankedProbabilities }

NoEntry == [name |-> "", severity |-> ""]
NoMap == [disease_name |-> "", severity_level |-> "", business_metrics |-> metricsOf(0, 0, 0, 0)]

AdviceIdle ==
  /\ cardPredictions = << >>
  /\ lookupDone = FALSE
  /\ diseaseInfo = NoEntry
  /\ environmentMap = NoMap
  /\ businessMetrics = metricsOf(0, 0, 0, 0)

-----------------------------------------------------------------------------
(* The diagnose workflow: bounds and values                                *)

\* upload events in one behaviour
MaxUploads == 2
\* processImage calls in one behaviour
MaxRuns == 2
\* records written to one history in one behaviour
MaxRecorded == 102

Views == { "diagnose", "dashboard", "chat" }

USER_ID == "farmer-1"

\* a File / its data URL: the upload event it came from and the last
\* twenty characters of canvas.toDataURL('image/jpeg', 0.8)
NoImage == [upload |-> 0, tail |-> ""]
Tails == { "EAAAAAAAAAAAAAAAAAP/Z", "RRRQB//2Q==" }

\* imageFile.name + imageFile.size + imageFile.lastModified
imageName(file) == [name |-> file.upload]
NoName == [name |-> 0]

\* canvas.toDataURL of the preprocessed image
toDataURL(file) == [upload |-> file.upload, chars |-> <<"data:image/jpeg;base64,", file.tail>>]
NoUrl == [upload |-> 0, chars |-> << >>]

\* imageUrl.slice(-20)
sliceLast20(imageUrl) == imageUrl.chars[Len(imageUrl.chars)]

\* additionalData: null, or the form's data (AdditionalDataForm lines 16..25
\* are its initial values); a cleared number field is parseFloat('') = NaN
NoAdditionalData == [given |-> FALSE]
formData(soilPH, temperature, humidity) ==
  [given |-> TRUE, soilPH |-> soilPH, temperature |-> temperature, humidity |-> humidity]
FormDefaults == formData(Milli(700), Milli(2400), Milli(6500))

RemoveAt(s, i) == [ j \in 1..(Len(s) - 1) |-> IF j < i THEN s[j] ELSE s[j + 1] ]

CountOf(s, P(_)) == Cardinality({ i \in DOMAIN s : P(s[i]) })

-----------------------------------------------------------------------------
(* utils/diagnosisRecorder and utils/storage                               *)

MAX_DIAGNOSIS_RECORDS == 100
MAX_DIAGNOSES == 100

\* the history with the new record put last and the first 100 kept
trimmedRecords_newestLast(diagnosisRecord, existingRecords) ==
  SliceTo(existingRecords \o <<diagnosisRecord>>, MAX_DIAGNOSIS_RECORDS)

\* recordDiagnosisToLocalStorage: updatedRecords.slice(0, 100)
trimmedRecords(diagnosisRecord, existingRecords) ==
  SliceTo(<<diagnosisRecord>> \o existingRecords, MAX_DIAGNOSIS_RECORDS)

IsHealthy(r) == r.topPrediction.className = "Healthy"

\* JSON.stringify writes NaN as null and JSON.parse reads null back
JsonNull == 0 - 2
stringifyNumber(x) == IF IsNaN(x) THEN JsonNull ELSE x
stringifyQuotient(q) ==
  IF IsNaN(q.num) THEN [num |-> JsonNull, den |-> JsonNull] ELSE q

stringifyRecord(r) ==
  IF r.additionalData.given
  THEN [r EXCEPT !.additionalData =
          formData(stringifyNumber(@.soilPH), stringifyNumber(@.temperature),
                   stringifyNumber(@.humidity))]
  ELSE r

stringifyRecords(records) == [i \in DOMAIN records |-> stringifyRecord(records[i])]

\* sum + x in a reduce: null converts to 0, NaN stays NaN
plus(sum, x) == IF x = JsonNull THEN sum ELSE Add(sum, x)

\* the values lo..hi added up as the reduce adds them; the sum of a range
\* is the sum of its halves, since null counts as 0 and NaN absorbs
RECURSIVE sumRange(_, _, _)
sumRange(values, lo, hi) ==
  IF lo > hi THEN 0
  ELSE IF lo = hi THEN plus(0, values[lo])
  ELSE Add(sumRange(values, lo, (lo + hi) \div 2),
           sumRange(values, (lo + hi) \div 2 + 1, hi))

\* values.reduce((sum, x) => sum + x, 0) over the first n values
reduceSum(values, n) == sumRange(values, 1, n)

waterSavedOf(records) ==
  reduceSum([i \in DOMAIN records |-> records[i].businessMetrics.water_saved_est],
            Len(records))

pesticidesAvoidedOf(records) ==
  reduceSum([i \in DOMAIN records |-> records[i].businessMetrics.pesticide_avoided_est],
            Len(records))

diseaseFrequencyOf(records) ==
  [ disease \in { records[i].topPrediction.className : i \in DOMAIN records } |->
      Cardinality({ i \in DOMAIN records : records[i].topPrediction.className = disease }) ]

hasAdditionalData(r) == r.additionalData.given

\* the average of one field over recordsWithEnvData, or the default
averageOf(values, default) ==
  IF Len(values) > 0 THEN Quotient(reduceSum(values, Len(values)), Len(values))
  ELSE Quotient(default, 1)

averageSoilPHOf(records, default) ==
  averageOf([i \in DOMAIN SelectSeq(records, hasAdditionalData) |->
               SelectSeq(records, hasAdditionalData)[i].additionalData.soilPH], default)

averageTemperatureOf(records, default) ==
  averageOf([i \in DOMAIN SelectSeq(records, hasAdditionalData) |->
               SelectSeq(records, hasAdditionalData)[i].additionalData.temperature], default)

averageHumidityOf(records, default) ==
  averageOf([i \in DOMAIN SelectSeq(records, hasAdditionalData) |->
               SelectSeq(records, hasAdditionalData)[i].additionalData.humidity], default)

calculateDashboardMetrics(records) ==
  [ totalDiagnoses |-> Len(records),
    healthyPlants |-> CountOf(records, IsHealthy),
    diseasedPlants |-> Len(records) - CountOf(records, IsHealthy),
    waterSaved |-> waterSavedOf(records),
    pesticidesAvoided |-> pesticidesAvoidedOf(records),
    diseaseFrequency |-> diseaseFrequencyOf(records),
    averageSoilPH |-> averageSoilPHOf(records, Milli(700)),
    averageTemperature |-> averageTemperatureOf(records, Milli(2400)),
    averageHumidity |-> averageHumidityOf(records, Milli(6500)) ]

stringifyMetrics(m) ==
  [ m EXCEPT !.averageSoilPH = stringifyQuotient(@),
             !.averageTemperature = stringifyQuotient(@),
             !.averageHumidity = stringifyQuotient(@) ]

\* getDashboardData() when the key is absent: null
NoDashboardData == [totalDiagnoses |-> 0, healthyPlants |-> 0, diseasedPlants |-> 0]

\* saveDiagnosis: [diagnosis, ...existing].slice(0, 100)
updatedDiagnoses(diagnosis, existing) ==
  SliceTo(<<diagnosis>> \o existing, MAX_DIAGNOSES)

calculateMetrics(history) == [totalDiagnoses |-> Len(history)]

\* recordDiagnosisToLocalStorage(diagnosisRecord): setItem of the trimmed
\* list as JSON, then updateDashboardDataSeries of the list in memory, its
\* metrics stored as JSON; a throwing setItem leaves both keys
recordDiagnosisToLocalStorage(diagnosisRecord) ==
  IF quotaExceeded
  THEN UNCHANGED <<diagnosisRecords, dashboardData, recorded>>
  ELSE /\ diagnosisRecords' =
            stringifyRecords(trimmedRecords(diagnosisRecord, diagnosisRecords))
       /\ dashboardData' =
            stringifyMetrics(calculateDashboardMetrics(
              trimmedRecords(diagnosisRecord, diagnosisRecords)))
       /\ recorded' = recorded + 1

-----------------------------------------------------------------------------
(* AppLayout.handleInferenceResults                                        *)

duplicateCheckKey(u, imageUrl, results) ==
  <<u.id, sliceLast20(imageUrl), results[1].className>>

\* businessMetrics is results[0].businessMetrics, which processImage took
\* from calculateBusinessMetrics(pred.label, true, 1)
diagnosisRecord(id, u, imageUrl, results, hasEnvData, addData) ==
  [ id |-> id,
    userId |-> u.id,
    imageUrl |-> imageUrl,
    topPrediction |-> results[1],
    allPredictions |-> results,
    businessMetrics |-> calculateBusinessMetrics(results[1].className, TRUE, 1),
    environmentalData |-> hasEnvData,
    additionalData |-> addData ]

NoUser == [id |-> "", theme |-> ""]


\* line 60: if (processingRef.current) return
alreadyProcessing_never == FALSE

alreadyProcessing == processingRef

\* lines 72 and 78: the record is built and saved; r is the closure of the
\* handleInferenceResults that the processImage call captured
savesDiagnosis_onlyInDiagnoseView(r, results, imageUrl) ==
  /\ currentView = "diagnose"
  /\ r.user # NoUser /\ Len(results) > 0
  /\ r.lastSavedDiagnosisId # duplicateCheckKey(r.user, imageUrl, results)

savesDiagnosis(r, results, imageUrl) ==
  /\ r.user # NoUser /\ Len(results) > 0
  /\ r.lastSavedDiagnosisId # duplicateCheckKey(r.user, imageUrl, results)

\* the save of lines 83..118; setLastSavedDiagnosisId is skipped when
\* recordDiagnosisToLocalStorage throws
saveDiagnosisRecord(r, results, imageUrl) ==
  /\ recordDiagnosisToLocalStorage(
       diagnosisRecord(recorded + 1, r.user, imageUrl, results,
                       r.hasEnvironmentalData, r.additionalData))
  /\ lastSavedDiagnosisId' =
       IF quotaExceeded THEN lastSavedDiagnosisId
       ELSE duplicateCheckKey(r.user, imageUrl, results)

handleInferenceResults(r, results, imageUrl) ==
  IF alreadyProcessing
  THEN UNCHANGED <<predictions, processedImageUrl, lastSavedDiagnosisId,
                   processingRef, resetTimers, diagnosisRecords,
                   dashboardData, recorded>>
  ELSE /\ processingRef' = TRUE
       /\ predictions' = results
       /\ processedImageUrl' = imageUrl
       /\ resetTimers' = resetTimers + 1
       /\ IF savesDiagnosis(r, results, imageUrl)
          THEN saveDiagnosisRecord(r, results, imageUrl)
          ELSE UNCHANGED <<lastSavedDiagnosisId, diagnosisRecords,
                           dashboardData, recorded>>

\* what the call did, for the history variable delivered
outcomeOf(r, results, imageUrl) ==
  IF alreadyProcessing THEN "skipped"
  ELSE IF ~savesDiagnosis(r, results, imageUrl) THEN "shown"
  ELSE IF quotaExceeded THEN "saveFailed"
  ELSE "saved"

-----------------------------------------------------------------------------
(* Inference: mounting, the two effects, processImage                      *)

\* AppLayout renders <Inference> (part_012 lines 363, 401 and 409)
RendersInference ==
  currentView' = "diagnose" /\ predictions' = << >> /\ readyForInference'

\* the processImage call the inference effect starts, with what it closes
\* over: imageFile, model, and onResults with its own closure
processImageCall(mdl) ==
  [ image |-> selectedImage',
    model |-> mdl,
    user |-> user',
    lastSavedDiagnosisId |-> lastSavedDiagnosisId',
    additionalData |-> additionalData',
    hasEnvironmentalData |-> hasEnvironmentalData',
    stage |-> "createImageElement",
    owner |-> TRUE ]

NoCall ==
  [ image |-> NoImage, model |-> "null", user |-> NoUser,
    lastSavedDiagnosisId |-> << >>, additionalData |-> NoAdditionalData,
    hasEnvironmentalData |-> FALSE, stage |-> "none", owner |-> FALSE ]

StartsProcessImage(mdl, rs) ==
  /\ runsStarted < MaxRuns
  /\ runs' = Append(rs, processImageCall(mdl))
  /\ runsStarted' = runsStarted + 1

NoProcessImage(rs) ==
  /\ runs' = rs
  /\ runsStarted' = runsStarted

\* the component leaves the tree: its state is gone, its promises are not
Unmounts(g, c, load, rs) ==
  /\ mounted' = FALSE
  /\ modelStatus' = "never-loaded"
  /\ model' = "null"
  /\ processedImageName' = NoName
  /\ globalModelStatus' = g
  /\ globalModelCache' = c
  /\ modelLoad' = IF load = "owned" THEN "orphaned" ELSE load
  /\ NoProcessImage([ i \in DOMAIN rs |-> [rs[i] EXCEPT !.owner = FALSE] ])

\* (mutant) a mount that finds no cached model starts the load again
Mounts_retriesFailedLoad(g, c, load, rs) ==
  /\ mounted' = TRUE
  /\ processedImageName' = NoName
  /\ model' = c
  /\ globalModelCache' = c
  /\ modelStatus' = IF g = "never-loaded" \/ c = "null" THEN "loading" ELSE g
  /\ globalModelStatus' = IF g = "never-loaded" \/ c = "null" THEN "loading" ELSE g
  /\ modelLoad' = IF g = "never-loaded" \/ c = "null" THEN "owned" ELSE load
  /\ IF g = "ready" /\ c # "null" /\ selectedImage' # NoImage
     THEN StartsProcessImage(c, rs)
     ELSE NoProcessImage(rs)

\* a new instance: useState initialisers (lines 42..45), the model effect
\* (lines 49..124) and the inference effect (lines 127..216) of the first
\* render, then the re-render that setModelStatus('loading') causes
Mounts(g, c, load, rs) ==
  /\ mounted' = TRUE
  /\ processedImageName' = NoName
  /\ model' = c
  /\ globalModelCache' = c
  /\ modelStatus' = IF g = "never-loaded" THEN "loading" ELSE g
  /\ globalModelStatus' = IF g = "never-loaded" THEN "loading" ELSE g
  /\ modelLoad' = IF g = "never-loaded" THEN "owned" ELSE load
  /\ IF g = "ready" /\ selectedImage' # NoImage
     THEN StartsProcessImage(c, rs)
     ELSE NoProcessImage(rs)

\* useCallback(..., [user, lastSavedDiagnosisId, additionalData,
\* hasEnvironmentalData]): the identity of handleInferenceResults
onResultsNow == <<user, lastSavedDiagnosisId, additionalData, hasEnvironmentalData>>
onResultsNext == <<user', lastSavedDiagnosisId', additionalData', hasEnvironmentalData'>>

\* the dependency list [imageFile, modelStatus, model, onResults, onError]
depsChanged(ms, mdl) ==
  <<selectedImage', ms, mdl, onResultsNext>> # <<selectedImage, modelStatus, model, onResultsNow>>

\* the mounted instance re-renders with state ms, mdl, pin
Updates(g, c, ms, mdl, pin, load, rs) ==
  /\ mounted' = TRUE
  /\ modelStatus' = ms
  /\ model' = mdl
  /\ processedImageName' = pin
  /\ globalModelStatus' = g
  /\ globalModelCache' = c
  /\ modelLoad' = load
  /\ IF /\ depsChanged(ms, mdl)
        /\ selectedImage' # NoImage /\ ms = "ready"
        /\ pin # imageName(selectedImage')
     THEN StartsProcessImage(mdl, rs)
     ELSE NoProcessImage(rs)

\* React renders AppLayout after a step; g, c are the module globals, ms,
\* mdl, pin the instance state, load and rs the pending promises after the
\* step's own assignments
Rerender(g, c, ms, mdl, pin, load, rs) ==
  IF ~RendersInference THEN Unmounts(g, c, load, rs)
  ELSE IF mounted THEN Updates(g, c, ms, mdl, pin, load, rs)
  ELSE Mounts(g, c, load, rs)

RerenderOnly ==
  Rerender(globalModelStatus, globalModelCache, modelStatus, model,
           processedImageName, modelLoad, runs)

NoDelivery ==
  [ callback |-> "none", cause |-> "none", run |-> NoCall,
    results |-> << >>, outcome |-> "none" ]

\* a step of the user or of the router: no promise settles in it
LayoutStep ==
  /\ UNCHANGED <<storageVars, recorded, saved, classifierCalls, resultsDelivered>>
  /\ UNCHANGED <<mapperVars, pageVars>>
  /\ delivered' = NoDelivery
  /\ RerenderOnly

\* such a step outside ImageUpload
UserStep == LayoutStep /\ UNCHANGED uploadVars

-----------------------------------------------------------------------------
(* AppLayout: what the user does                                           *)

\* ImageUpload: disabled while isProcessing (part_012 line 406)
isProcessing ==
  readyForInference /\ selectedImage # NoImage /\ predictions = << >> /\ error = ""

\* ImageUpload is rendered and takes input: the form's overlay is not
\* over it and it is not disabled
takesFiles ==
  /\ currentView = "diagnose" /\ predictions = << >>
  /\ ~showAdditionalDataForm /\ ~isProcessing

\* (mutant) a selection that goes to inference without showing the form
onImageSelect_withoutForm ==
  /\ takesFiles
  /\ uploads < MaxUploads
  /\ uploads' = uploads + 1
  /\ \E tail \in Tails : selectedImage' = [upload |-> uploads + 1, tail |-> tail]
  /\ predictions' = << >>
  /\ processedImageUrl' = NoUrl
  /\ error' = ""
  /\ additionalData' = NoAdditionalData
  /\ readyForInference' = TRUE
  /\ showAdditionalDataForm' = FALSE
  /\ UNCHANGED <<currentView, user, lastSavedDiagnosisId, hasEnvironmentalData,
                 processingRef, resetTimers>>
  /\ LayoutStep

\* AppLayout.handleImageSelect(file), the onImageSelect of ImageUpload
onImageSelect ==
  /\ takesFiles
  /\ uploads < MaxUploads
  /\ uploads' = uploads + 1
  /\ \E tail \in Tails : selectedImage' = [upload |-> uploads + 1, tail |-> tail]
  /\ predictions' = << >>
  /\ processedImageUrl' = NoUrl
  /\ error' = ""
  /\ additionalData' = NoAdditionalData
  /\ readyForInference' = FALSE
  /\ showAdditionalDataForm' = TRUE
  /\ UNCHANGED <<currentView, user, lastSavedDiagnosisId, hasEnvironmentalData,
                 processingRef, resetTimers>>
  /\ LayoutStep

\* the user hands ImageUpload a file that passes validateImageFile
handleImageSelect == onImageSelect /\ UNCHANGED uploadVars

handleAdditionalDataSubmit ==
  /\ showAdditionalDataForm
  /\ additionalData' = FormDefaults
  /\ hasEnvironmentalData' = TRUE
  /\ showAdditionalDataForm' = FALSE
  /\ readyForInference' = TRUE
  /\ UNCHANGED <<currentView, user, selectedImage, predictions, processedImageUrl,
                 error, lastSavedDiagnosisId, processingRef, resetTimers, uploads>>
  /\ UserStep

handleAdditionalDataSkip ==
  /\ showAdditionalDataForm
  /\ additionalData' = NoAdditionalData
  /\ hasEnvironmentalData' = FALSE
  /\ showAdditionalDataForm' = FALSE
  /\ readyForInference' = TRUE
  /\ UNCHANGED <<currentView, user, selectedImage, predictions, processedImageUrl,
                 error, lastSavedDiagnosisId, processingRef, resetTimers, uploads>>
  /\ UserStep

\* "Try again" and "Diagnose Another Plant"
resetDiagnosis ==
  /\ currentView = "diagnose" /\ ~showAdditionalDataForm
  /\ error # "" \/ predictions # << >>
  /\ selectedImage' = NoImage
  /\ predictions' = << >>
  /\ processedImageUrl' = NoUrl
  /\ error' = ""
  /\ lastSavedDiagnosisId' = << >>
  /\ showAdditionalDataForm' = FALSE
  /\ additionalData' = NoAdditionalData
  /\ readyForInference' = FALSE
  /\ hasEnvironmentalData' = FALSE
  /\ processingRef' = FALSE
  /\ UNCHANGED <<currentView, user, resetTimers, uploads>>
  /\ UserStep

\* navigate(`/${view}`): the router renders the same AppLayout element with
\* another view prop
handleNavigation ==
  /\ \E view \in Views \ { currentView } : currentView' = view
  /\ UNCHANGED <<user, selectedImage, predictions, processedImageUrl, error,
                 lastSavedDiagnosisId, showAdditionalDataForm, additionalData,
                 readyForInference, hasEnvironmentalData, processingRef,
                 resetTimers, uploads>>
  /\ UserStep

\* AuthContext.updateUserPreferences({ theme }) as toggleTheme calls it: a
\* new user object with the same id and the other theme
updateUserPreferences ==
  /\ user' = [user EXCEPT !.theme = IF @ = "light" THEN "dark" ELSE "light"]
  /\ UNCHANGED <<currentView, selectedImage, predictions, processedImageUrl, error,
                 lastSavedDiagnosisId, showAdditionalDataForm, additionalData,
                 readyForInference, hasEnvironmentalData, processingRef,
                 resetTimers, uploads>>
  /\ UserStep

\* the callback of setTimeout(..., 100) in handleInferenceResults
resetTimerFires ==
  /\ resetTimers > 0
  /\ resetTimers' = resetTimers - 1
  /\ processingRef' = FALSE
  /\ UNCHANGED <<currentView, user, selectedImage, predictions, processedImageUrl,
                 error, lastSavedDiagnosisId, showAdditionalDataForm,
                 additionalData, readyForInference, hasEnvironmentalData, uploads>>
  /\ UserStep

-----------------------------------------------------------------------------
(* services/simpleAuthService                                              *)

MaxAuthCalls == 2

chars_seed_email == <<"s","i","d","d","i","d","d","y","@","g","m","a","i","l",".","c","o","m">>
chars_demo_email == <<"d","e","m","o","@","g","m","a","i","l",".","c","o","m">>
chars_salt == <<"s","n","a","p","f","a","r","m","_","s","a","l","t","_","2","0","2","4">>
chars_password == <<"p","a","s","s","w","o","r","d">>

\* SHA-256 of password + salt: equal digests for equal inputs only
hashPassword(password) == [sha256 |-> password \o chars_salt]

isWhitespace(c) == c \in { " ", "\t", "\n" }

\* /^[^\s@]+@[^\s@]+\.[^\s@]+$/.test(email)
isValidEmail(email) ==
  /\ \A i \in 1..Len(email) : ~isWhitespace(email[i])
  /\ \E a \in 2..Len(email) :
        /\ email[a] = "@"
        /\ \A i \in 1..Len(email) : email[i] = "@" => i = a
        /\ \E d \in (a + 2)..(Len(email) - 1) : email[d] = "."

\* String.prototype.trim
RECURSIVE trimStart(_)
trimStart(s) ==
  IF s # << >> /\ isWhitespace(Head(s)) THEN trimStart(Tail(s)) ELSE s

RECURSIVE trimEnd(_)
trimEnd(s) ==
  IF s # << >> /\ isWhitespace(s[Len(s)]) THEN trimEnd(SubSeq(s, 1, Len(s) - 1)) ELSE s

trim(s) == trimEnd(trimStart(s))

DEFAULT_PREFERENCES ==
  [theme |-> "system", notifications |-> TRUE, units |-> "metric", language |-> "en"]

\* the user getUsers stores when the key is absent (password: "password")
testUser(now) ==
  [ id |-> [prefix |-> "user_test_siddiddy", n |-> 0],
    email |-> chars_seed_email,
    passwordHash |-> hashPassword(chars_password),
    displayName |-> <<"S","i","d"," ","D","i","d","d","y">>,
    photoURL |-> "",
    createdAt |-> now,
    preferences |-> DEFAULT_PREFERENCES ]

\* the key is absent
NoUsers == [present |-> FALSE, users |-> << >>]

\* localStorage.setItem('snapfarm_users', JSON.stringify(users)); with the
\* quota exhausted setItem throws and the key keeps its value
setItemUsers(stored, users, quotaExhausted) ==
  IF quotaExhausted THEN stored ELSE [present |-> TRUE, users |-> users]

\* getUsers(): the stored list, or the list with the test user, which it
\* stores; result [users, stored, threw]
getUsers(stored, now, quotaExhausted) ==
  IF stored.present
  THEN [users |-> stored.users, stored |-> stored, threw |-> FALSE]
  ELSE [ users |-> << testUser(now) >>,
         stored |-> setItemUsers(stored, << testUser(now) >>, quotaExhausted),
         threw |-> quotaExhausted ]

\* users.find(u => u.email === email)
RECURSIVE findByExactEmail(_, _, _)
findByExactEmail(users, email, i) ==
  IF i > Len(users) THEN 0
  ELSE IF users[i].email = email THEN i
  ELSE findByExactEmail(users, email, i + 1)

\* the lookup without toLowerCase
findByEmail_caseSensitive(users, email, i) == findByExactEmail(users, email, i)

\* users.find(u => u.email.toLowerCase() === email.toLowerCase())
RECURSIVE findByEmail(_, _, _)
findByEmail(users, email, i) ==
  IF i > Len(users) THEN 0
  ELSE IF toLowerCase(users[i].email) = toLowerCase(email) THEN i
  ELSE findByEmail(users, email, i + 1)

\* users.find(u => u.id === userId)
RECURSIVE findById(_, _, _)
findById(users, id, i) ==
  IF i > Len(users) THEN 0
  ELSE IF users[i].id = id THEN i
  ELSE findById(users, id, i + 1)

\* users[userIndex].preferences = { ...users[userIndex].preferences, ...preferences }
RECURSIVE withPreferences(_, _, _)
withPreferences(users, id, preferences) ==
  IF users = << >> THEN << >>
  ELSE << IF Head(users).id = id
          THEN [Head(users) EXCEPT !.preferences =
                  [@ EXCEPT !.theme = preferences.theme]]
          ELSE Head(users) >>
       \o withPreferences(Tail(users), id, preferences)

toUser(storedUser) ==
  [ id |-> storedUser.id,
    email |-> storedUser.email,
    displayName |-> storedUser.displayName,
    photoURL |-> storedUser.photoURL,
    createdAt |-> storedUser.createdAt,
    preferences |-> storedUser.preferences ]

INVALID_EMAIL == "Please enter a valid email address"
EMAIL_NOT_FOUND == "Email not found. Please check your email address or sign up."
INCORRECT_PASSWORD == "Incorrect password. Please try again."
SHORT_PASSWORD == "Password must be at least 6 characters long"
NAME_REQUIRED == "Display name is required"
EMAIL_EXISTS == "An account with this email already exists"
QUOTA_EXCEEDED == "QuotaExceededError"

-----------------------------------------------------------------------------
(* AppRouter                                                               *)

ProtectedPaths == { "/dashboard", "/diagnose", "/chat" }
Paths == { "/", "/signin", "/signup", "/settings" } \cup ProtectedPaths

\* authState.user === null
NullUser == [id |-> [prefix |-> "", n |-> 0]]

Element(name) == [element |-> name, to |-> ""]
Navigate(to) == [element |-> "Navigate", to |-> to]

\* (mutant) ProtectedRoute without the loading screen
ProtectedRoute_noLoadingScreen(auth, children) ==
  IF auth.user = NullUser THEN Navigate("/signin") ELSE children

ProtectedRoute(auth, children) ==
  IF auth.loading THEN Element("Loading")
  ELSE IF auth.user = NullUser THEN Navigate("/signin")
  ELSE children

\* the element <Routes> renders for a path
routeElement(path, auth) ==
  CASE path = "/" -> Element("Home")
    [] path = "/signin" ->
         IF auth.user # NullUser THEN Navigate("/dashboard") ELSE Element("SignIn")
    [] path = "/signup" ->
         IF auth.user # NullUser THEN Navigate("/dashboard") ELSE Element("SignUp")
    [] path \in ProtectedPaths -> ProtectedRoute(auth, Element("AppLayout"))
    [] OTHER -> Navigate("/")

\* the path the router settles on: every <Navigate> rendered is followed
RECURSIVE resolve(_, _)
resolve(path, auth) ==
  IF routeElement(path, auth).element = "Navigate"
  THEN resolve(routeElement(path, auth).to, auth)
  ELSE path

\* what is on screen
screen == routeElement(location, authState).element

-----------------------------------------------------------------------------
(* AuthContext                                                             *)

NoSettled == [method |-> "none", outcome |-> "none", message |-> "", user |-> NullUser]

AuthIdle ==
  /\ authState = [user |-> NullUser, loading |-> FALSE, error |-> ""]
  /\ storedUsers = NoUsers
  /\ location = "/"
  /\ authCalls = << >>
  /\ authStarted = 0
  /\ settled = NoSettled

chars_seed_email_typed == <<"S","i","d","d","i","d","d","y","@","G","m","a","i","l",".","c","o","m">>
chars_new_email == <<"A","n","n","@","f","a","r","m",".","i","o">>
chars_no_domain == <<"a","n","n","@","f","a","r","m">>

\* what the forms pass to signIn and signUp
Emails == { chars_seed_email_typed, chars_new_email, chars_no_domain, chars_demo_email }
Passwords == { chars_password, <<"1","2","3","4","5">>, <<"1","2","3","4","5","6">> }
DisplayNames == { <<" ","A","n","n"," ">>, <<" "," ">>, << >> }

\* the rest of the application during a step of AuthContext
AuthFrame ==
  UNCHANGED <<mapperVars, appVars, adviceVars, dashboardVars, uploadVars,
              serviceVars>>

\* (mutant) a catch block that leaves loading set
rejects_keepsLoading(method, message) ==
  /\ authState' = [user |-> authState.user, loading |-> authState.loading,
                   error |-> message]
  /\ settled' = [method |-> method, outcome |-> "rejected", message |-> message,
                 user |-> NullUser]

\* the catch block: setAuthState(prev => ({ ...prev, error, loading: false }))
\* and `throw error`
rejects(method, message) ==
  /\ authState' = [user |-> authState.user, loading |-> FALSE, error |-> message]
  /\ settled' = [method |-> method, outcome |-> "rejected", message |-> message,
                 user |-> NullUser]

\* (mutant) a success that does not put the user into the state
resolves_withoutLogin(method, u) ==
  /\ authState' = [user |-> authState.user, loading |-> FALSE, error |-> ""]
  /\ settled' = [method |-> method, outcome |-> "resolved", message |-> "", user |-> u]

\* setAuthState({ user, loading: false, error: null })
resolves(method, u) ==
  /\ authState' = [user |-> u, loading |-> FALSE, error |-> ""]
  /\ settled' = [method |-> method, outcome |-> "resolved", message |-> "", user |-> u]

\* setAuthState(prev => ({ ...prev, loading: true, error: null })) and the
\* service call is waiting for hashPassword
awaits(call) ==
  /\ authState' = [user |-> authState.user, loading |-> TRUE, error |-> ""]
  /\ authCalls' = Append(authCalls, call)
  /\ settled' = NoSettled

\* React renders the router with the new auth state
routerRenders == location' = resolve(location, authState')

\* signIn up to `await hashPassword(password)`
signIn ==
  /\ screen = "SignIn" /\ authStarted < MaxAuthCalls
  /\ authStarted' = authStarted + 1
  /\ \E email \in Emails, password \in Passwords, quotaExhausted \in BOOLEAN :
       LET got == getUsers(storedUsers, authStarted', quotaExhausted)
           i == findByEmail(got.users, email, 1)
       IN IF ~isValidEmail(email)
          THEN rejects("signIn", INVALID_EMAIL)
                 /\ UNCHANGED <<storedUsers, authCalls>>
          ELSE /\ storedUsers' = got.stored
               /\ IF got.threw
                  THEN rejects("signIn", QUOTA_EXCEEDED) /\ UNCHANGED authCalls
                  ELSE IF i = 0
                  THEN rejects("signIn", EMAIL_NOT_FOUND) /\ UNCHANGED authCalls
                  ELSE awaits([ method |-> "signIn", email |-> email,
                                password |-> password, displayName |-> << >>,
                                users |-> got.users, found |-> i,
                                now |-> authStarted' ])
  /\ routerRenders
  /\ AuthFrame

\* signUp up to `await hashPassword(password)`
signUp ==
  /\ screen = "SignUp" /\ authStarted < MaxAuthCalls
  /\ authStarted' = authStarted + 1
  /\ \E email \in Emails, password \in Passwords, displayName \in DisplayNames,
        quotaExhausted \in BOOLEAN :
       LET got == getUsers(storedUsers, authStarted', quotaExhausted)
       IN IF ~isValidEmail(email)
          THEN rejects("signUp", INVALID_EMAIL) /\ UNCHANGED <<storedUsers, authCalls>>
          ELSE IF Len(password) < 6
          THEN rejects("signUp", SHORT_PASSWORD) /\ UNCHANGED <<storedUsers, authCalls>>
          ELSE IF trim(displayName) = << >>
          THEN rejects("signUp", NAME_REQUIRED) /\ UNCHANGED <<storedUsers, authCalls>>
          ELSE /\ storedUsers' = got.stored
               /\ IF got.threw
                  THEN rejects("signUp", QUOTA_EXCEEDED) /\ UNCHANGED authCalls
                  ELSE IF findByEmail(got.users, email, 1) # 0
                  THEN rejects("signUp", EMAIL_EXISTS) /\ UNCHANGED authCalls
                  ELSE awaits([ method |-> "signUp", email |-> email,
                                password |-> password, displayName |-> displayName,
                                users |-> got.users, found |-> 0,
                                now |-> authStarted' ])
  /\ routerRenders
  /\ AuthFrame

\* the StoredUser signUp builds
newUser(call) ==
  [ id |-> [prefix |-> "user_", n |-> call.now],
    email |-> toLowerCase(call.email),
    passwordHash |-> hashPassword(call.password),
    displayName |-> trim(call.displayName),
    photoURL |-> "",
    createdAt |-> call.now,
    preferences |-> DEFAULT_PREFERENCES ]

\* hashPassword resolves: the rest of signIn or signUp, then AuthContext
hashPasswordSettles ==
  /\ \E i \in DOMAIN authCalls, quotaExhausted \in BOOLEAN :
       LET call == authCalls[i]
       IN /\ authCalls' = RemoveAt(authCalls, i)
          /\ IF call.method = "signIn"
             THEN /\ UNCHANGED storedUsers
                  /\ IF call.users[call.found].passwordHash # hashPassword(call.password)
                     THEN rejects("signIn", INCORRECT_PASSWORD)
                     ELSE resolves("signIn", toUser(call.users[call.found]))
             ELSE /\ storedUsers' =
                       setItemUsers(storedUsers, Append(call.users, newUser(call)),
                                    quotaExhausted)
                  /\ IF quotaExhausted
                     THEN rejects("signUp", QUOTA_EXCEEDED)
                     ELSE resolves("signUp", toUser(newUser(call)))
  /\ UNCHANGED authStarted
  /\ routerRenders
  /\ AuthFrame

\* the user signInWithGoogle creates when demo@gmail.com is not stored
googleUser(now) ==
  [ id |-> [prefix |-> "google_user_", n |-> now],
    email |-> chars_demo_email,
    passwordHash |-> [sha256 |-> << >>],
    displayName |-> <<"D","e","m","o"," ","U","s","e","r">>,
    photoURL |-> "https://via.placeholder.com/40",
    createdAt |-> now,
    preferences |-> DEFAULT_PREFERENCES ]

\* signInWithGoogle: the service awaits nothing
signInWithGoogle ==
  /\ screen \in { "SignIn", "SignUp" } /\ authStarted < MaxAuthCalls
  /\ authStarted' = authStarted + 1
  /\ \E quotaSeed \in BOOLEAN, quotaSave \in BOOLEAN :
       LET got == getUsers(storedUsers, authStarted', quotaSeed)
           i == findByExactEmail(got.users, chars_demo_email, 1)
       IN IF got.threw
          THEN storedUsers' = got.stored /\ rejects("signInWithGoogle", QUOTA_EXCEEDED)
          ELSE IF i # 0
          THEN storedUsers' = got.stored
                 /\ resolves("signInWithGoogle", toUser(got.users[i]))
          ELSE /\ storedUsers' =
                    setItemUsers(got.stored,
                                 Append(got.users, googleUser(authStarted')), quotaSave)
               /\ IF quotaSave
                  THEN rejects("signInWithGoogle", QUOTA_EXCEEDED)
                  ELSE resolves("signInWithGoogle", toUser(googleUser(authStarted')))
  /\ UNCHANGED authCalls
  /\ routerRenders
  /\ AuthFrame

\* logout: signOut has nothing to clear
logout ==
  /\ screen = "AppLayout"
  /\ resolves("logout", NullUser)
  /\ UNCHANGED <<storedUsers, authCalls, authStarted>>
  /\ routerRenders
  /\ AuthFrame

\* the preferences a caller passes: the theme the settings switch to
SavedThemes == { "dark" }

\* AuthContext.updateUserPreferences({ theme }) with
\* simpleAuthService.updateUserPreferences(userId, preferences): the stored
\* user and the user in the state get the theme
savesUserPreferences ==
  /\ screen = "AppLayout" /\ authState.user # NullUser
  /\ \E theme \in SavedThemes, quotaSeed \in BOOLEAN, quotaSave \in BOOLEAN :
       LET got == getUsers(storedUsers, authStarted, quotaSeed)
           i == findById(got.users, authState.user.id, 1)
       IN /\ authState.user.preferences.theme # theme
          /\ IF got.threw
             THEN /\ storedUsers' = got.stored
                  /\ UNCHANGED authState
                  /\ settled' = [ method |-> "updateUserPreferences",
                                  outcome |-> "rejected",
                                  message |-> QUOTA_EXCEEDED, user |-> NullUser ]
             ELSE IF i = 0
             THEN /\ storedUsers' = got.stored
                  /\ UNCHANGED authState
                  /\ settled' = [ method |-> "updateUserPreferences",
                                  outcome |-> "rejected",
                                  message |-> "User not found", user |-> NullUser ]
             ELSE /\ storedUsers' =
                       setItemUsers(got.stored,
                                    withPreferences(got.users, authState.user.id,
                                                    [theme |-> theme]),
                                    quotaSave)
                  /\ IF quotaSave
                     THEN /\ UNCHANGED authState
                          /\ settled' = [ method |-> "updateUserPreferences",
                                          outcome |-> "rejected",
                                          message |-> QUOTA_EXCEEDED,
                                          user |-> NullUser ]
                     ELSE /\ authState' =
                               [authState EXCEPT !.user.preferences.theme = theme]
                          /\ settled' = [ method |-> "updateUserPreferences",
                                          outcome |-> "resolved", message |-> "",
                                          user |-> authState'.user ]
  /\ UNCHANGED <<authCalls, authStarted>>
  /\ routerRenders
  /\ AuthFrame

\* simpleAuthService.resetTestData(): the key is removed
resetTestData ==
  /\ storedUsers.present
  /\ storedUsers' = NoUsers
  /\ settled' = NoSettled
  /\ UNCHANGED <<authState, location, authCalls, authStarted>>
  /\ AuthFrame

\* a link, or the back and forward buttons of the browser
navigate ==
  /\ \E path \in Paths \ { location } : location' = resolve(path, authState)
  /\ location' # location
  /\ settled' = NoSettled
  /\ UNCHANGED <<authState, storedUsers, authCalls, authStarted>>
  /\ AuthFrame

-----------------------------------------------------------------------------
(* services/authService with tokens                                        *)

MaxTokenCalls == 2

TOKEN_EXPIRY_HOURS == 24 * 7
TOKEN_EXPIRY_MS == TOKEN_EXPIRY_HOURS * 60 * 60 * 1000

chars_token_salt == <<"s","n","a","p","f","a","r","m","_","s","a","l","t">>

\* SHA-256 of password + 'snapfarm_salt'
tokenHashPassword(password) == [sha256 |-> password \o chars_token_salt]

\* generateToken(): 32 random bytes in hexadecimal; the model draws from
\* two values, so that a value can be drawn again
Tokens == { "9f", "c4" }
NoToken == ""

\* Math.random().toString(36).substr(2, 9)
RandomSuffixes == { "k3x", "p9q" }

NoUserId == [prefix |-> "", n |-> 0, random |-> ""]
NoStoredUser == [id |-> NoUserId]

\* the instants Date.now() passes through, counted from the first call
Instants == { 1, TOKEN_EXPIRY_MS - 1, TOKEN_EXPIRY_MS, TOKEN_EXPIRY_MS + 1 }

\* tokens.filter(token => token.expiresAt > now)
cleanExpiredTokens(tokens, now) ==
  SelectSeq(tokens, LAMBDA t : t.expiresAt > now)

\* createAuthToken(userId) with the value generateToken returned: the
\* stored list afterwards; the caller's state gets the current-token key
createAuthToken(tokens, userId, token, now) ==
  Append(cleanExpiredTokens(tokens, now),
         [userId |-> userId, token |-> token, expiresAt |-> now + TOKEN_EXPIRY_MS])

\* tokens.find(t => t.token === token)
RECURSIVE findToken(_, _, _)
findToken(tokens, token, i) ==
  IF i > Len(tokens) THEN 0
  ELSE IF tokens[i].token = token THEN i
  ELSE findToken(tokens, token, i + 1)

\* validateToken(token): the user id or null, and the list it stored
validateToken(tokens, token, now) ==
  LET valid == cleanExpiredTokens(tokens, now)
      i == findToken(valid, token, 1)
  IN [ userId |-> IF i # 0 /\ valid[i].expiresAt > now
                  THEN valid[i].userId ELSE NoUserId,
       tokens |-> valid ]

\* authService.getCurrentUser(): the user or null, and what it leaves in
\* the two token keys
getCurrentUser(users, tokens, current, now) ==
  IF current = NoToken
  THEN [user |-> NoStoredUser, tokens |-> tokens, current |-> current]
  ELSE LET v == validateToken(tokens, current, now)
           i == findById(users, v.userId, 1)
       IN IF v.userId = NoUserId
          THEN [user |-> NoStoredUser, tokens |-> v.tokens, current |-> NoToken]
          ELSE [ user |-> IF i # 0 THEN toUser(users[i]) ELSE NoStoredUser,
                 tokens |-> v.tokens, current |-> current ]

TokensIdle ==
  /\ usersDb = << >>
  /\ authTokens = << >>
  /\ currentToken = NoToken
  /\ clock = 0
  /\ tokenCalls = << >>
  /\ tokenStarted = 0
  /\ tokenReturned = [op |-> "none", user |-> NoStoredUser, threw |-> ""]
  /\ revoked = {}


\* the rest of the application during a call of the service
TokenFrame ==
  UNCHANGED <<mapperVars, appVars, adviceVars, dashboardVars, authVars,
              uploadVars, fileVars, llmVars,
              swVars>>

TokenEmails == { chars_new_email, chars_demo_email, chars_no_domain }
TokenPasswords == { <<"1","2","3","4","5">>, <<"1","2","3","4","5","6">> }

tokenThrows(op, message) ==
  tokenReturned' = [op |-> op, user |-> NoStoredUser, threw |-> message]

tokenReturns(op, u) ==
  tokenReturned' = [op |-> op, user |-> u, threw |-> ""]

\* createAuthToken as a step: the token list, the current token
storesToken(userId, token) ==
  /\ authTokens' = createAuthToken(authTokens, userId, token, clock)
  /\ currentToken' = token
  /\ revoked' = revoked \ { token }

\* authService.signUp up to `await hashPassword(password)`
tokenSignUp ==
  /\ tokenStarted < MaxTokenCalls
  /\ tokenStarted' = tokenStarted + 1
  /\ \E email \in TokenEmails, password \in TokenPasswords,
        displayName \in DisplayNames, random \in RandomSuffixes :
       IF ~isValidEmail(email)
       THEN tokenThrows("signUp", INVALID_EMAIL) /\ UNCHANGED tokenCalls
       ELSE IF Len(password) < 6
       THEN tokenThrows("signUp", SHORT_PASSWORD) /\ UNCHANGED tokenCalls
       ELSE IF trim(displayName) = << >>
       THEN tokenThrows("signUp", NAME_REQUIRED) /\ UNCHANGED tokenCalls
       ELSE IF findByEmail(usersDb, email, 1) # 0
       THEN tokenThrows("signUp", EMAIL_EXISTS) /\ UNCHANGED tokenCalls
       ELSE /\ tokenCalls' =
                 Append(tokenCalls,
                        [ method |-> "signUp", email |-> email,
                          password |-> password, displayName |-> displayName,
                          users |-> usersDb, found |-> 0, random |-> random ])
            /\ tokenReturned' = [op |-> "none", user |-> NoStoredUser, threw |-> ""]
  /\ UNCHANGED <<usersDb, authTokens, currentToken, clock, revoked>>
  /\ TokenFrame

\* authService.signIn up to `await hashPassword(password)`
tokenSignIn ==
  /\ tokenStarted < MaxTokenCalls
  /\ tokenStarted' = tokenStarted + 1
  /\ \E email \in TokenEmails, password \in TokenPasswords :
       IF ~isValidEmail(email)
       THEN tokenThrows("signIn", INVALID_EMAIL) /\ UNCHANGED tokenCalls
       ELSE IF findByEmail(usersDb, email, 1) = 0
       THEN tokenThrows("signIn", "No account found with this email address")
              /\ UNCHANGED tokenCalls
       ELSE /\ tokenCalls' =
                 Append(tokenCalls,
                        [ method |-> "signIn", email |-> email,
                          password |-> password, displayName |-> << >>,
                          users |-> usersDb,
                          found |-> findByEmail(usersDb, email, 1),
                          random |-> "" ])
            /\ tokenReturned' = [op |-> "none", user |-> NoStoredUser, threw |-> ""]
  /\ UNCHANGED <<usersDb, authTokens, currentToken, clock, revoked>>
  /\ TokenFrame

\* the StoredUser authService.signUp builds
tokenNewUser(call, now) ==
  [ id |-> [prefix |-> "user_", n |-> now, random |-> call.random],
    email |-> toLowerCase(call.email),
    passwordHash |-> tokenHashPassword(call.password),
    displayName |-> trim(call.displayName),
    photoURL |-> "",
    createdAt |-> now,
    preferences |-> DEFAULT_PREFERENCES ]

\* hashPassword resolves: the rest of signUp or signIn
tokenHashSettles ==
  /\ \E i \in DOMAIN tokenCalls, token \in Tokens :
       LET call == tokenCalls[i]
       IN /\ tokenCalls' = RemoveAt(tokenCalls, i)
          /\ IF call.method = "signIn"
             THEN /\ UNCHANGED usersDb
                  /\ IF call.users[call.found].passwordHash
                          # tokenHashPassword(call.password)
                     THEN /\ tokenThrows("signIn", "Incorrect password")
                          /\ UNCHANGED <<authTokens, currentToken, revoked>>
                     ELSE /\ storesToken(call.users[call.found].id, token)
                          /\ tokenReturns("signIn", toUser(call.users[call.found]))
             ELSE /\ usersDb' = Append(call.users, tokenNewUser(call, clock))
                  /\ storesToken(tokenNewUser(call, clock).id, token)
                  /\ tokenReturns("signUp", toUser(tokenNewUser(call, clock)))
  /\ UNCHANGED <<clock, tokenStarted>>
  /\ TokenFrame

\* the user authService.signInWithGoogle creates
tokenGoogleUser(now) ==
  [ id |-> [prefix |-> "google_user_", n |-> now, random |-> ""],
    email |-> chars_demo_email,
    passwordHash |-> [sha256 |-> << >>],
    displayName |-> <<"D","e","m","o"," ","U","s","e","r">>,
    photoURL |-> "https://via.placeholder.com/40",
    createdAt |-> now,
    preferences |-> DEFAULT_PREFERENCES ]

\* authService.signInWithGoogle(): it awaits nothing
tokenSignInWithGoogle ==
  /\ tokenStarted < MaxTokenCalls
  /\ tokenStarted' = tokenStarted + 1
  /\ \E token \in Tokens :
       LET i == findByExactEmail(usersDb, chars_demo_email, 1)
           u == IF i # 0 THEN usersDb[i] ELSE tokenGoogleUser(clock)
       IN /\ usersDb' = IF i # 0 THEN usersDb ELSE Append(usersDb, u)
          /\ storesToken(u.id, token)
          /\ tokenReturns("signInWithGoogle", toUser(u))
  /\ UNCHANGED <<clock, tokenCalls>>
  /\ TokenFrame

\* authService.getCurrentUser() as a step
tokenGetCurrentUser ==
  /\ LET r == getCurrentUser(usersDb, authTokens, currentToken, clock)
     IN /\ authTokens' = r.tokens
        /\ currentToken' = r.current
        /\ tokenReturns("getCurrentUser", r.user)
  /\ UNCHANGED <<usersDb, clock, tokenCalls, tokenStarted, revoked>>
  /\ TokenFrame

\* (mutant) a signOut that clears the current-token key only
signOut_keepsStoredToken ==
  /\ currentToken' = NoToken
  /\ revoked' = IF currentToken # NoToken THEN revoked \cup { currentToken }
                ELSE revoked
  /\ tokenReturns("signOut", NoStoredUser)
  /\ UNCHANGED <<usersDb, authTokens, clock, tokenCalls, tokenStarted>>
  /\ TokenFrame

\* authService.signOut()
signOut ==
  /\ IF currentToken # NoToken
     THEN /\ authTokens' = SelectSeq(authTokens, LAMBDA t : t.token # currentToken)
          /\ currentToken' = NoToken
          /\ revoked' = revoked \cup { currentToken }
     ELSE UNCHANGED <<authTokens, currentToken, revoked>>
  /\ tokenReturns("signOut", NoStoredUser)
  /\ UNCHANGED <<usersDb, clock, tokenCalls, tokenStarted>>
  /\ TokenFrame

\* time passes
clockAdvances ==
  /\ \E t \in Instants : t > clock /\ clock' = t
  /\ UNCHANGED <<usersDb, authTokens, currentToken, tokenCalls, tokenStarted,
                 tokenReturned, revoked>>
  /\ TokenFrame

-----------------------------------------------------------------------------
(* services/fileAuthService                                                *)

MaxFileCalls == 2

\* Math.random().toString(36).substring(2, 11) of the n-th call: every
\* draw has a value of its own
randomOf(serial) == <<"k3x", "p9q", "z7m", "b2c", "w5t", "h8d">>[serial]

\* generateToken() of the n-th call, likewise
tokenOf(serial) == <<"9f", "c4", "e1", "07", "5a", "d8">>[serial]

\* the user getUsers and initializeTestData store (password: "password")
fileTestUser ==
  [ id |-> [prefix |-> "user_test_1735156800000_siddiddy", n |-> 0, random |-> ""],
    email |-> chars_seed_email,
    passwordHash |-> hashPassword(chars_password),
    displayName |-> <<"S","i","d"," ","D","i","d","d","y">>,
    photoURL |-> "",
    createdAt |-> 0,   \* 1735156800000, before the first call
    preferences |-> DEFAULT_PREFERENCES ]

\* getUsers(): the list under snapfarm_file_users, or the list with the
\* test user, which saveUsers stores before the caller continues
fileGetUsers(stored) ==
  IF stored.present
  THEN [users |-> stored.users, stored |-> stored]
  ELSE [ users |-> << fileTestUser >>,
         stored |-> [present |-> TRUE, users |-> << fileTestUser >>] ]

\* getCurrentToken(): the cookie first, then localStorage
getCurrentToken(cookie, localToken) ==
  IF cookie # NoToken THEN cookie ELSE localToken

\* fileAuthService.getCurrentUser(): `return null`
fileGetCurrentUser == NoStoredUser

\* fileAuthService.getSessionInfo()
getSessionInfo(sessions, token, now) ==
  LET i == findToken(sessions, token, 1)
  IN IF token = NoToken THEN [isAuthenticated |-> FALSE, expiresAt |-> 0]
     ELSE IF i # 0 /\ sessions[i].expiresAt > now
     THEN [isAuthenticated |-> TRUE, expiresAt |-> sessions[i].expiresAt]
     ELSE [isAuthenticated |-> FALSE, expiresAt |-> 0]

NoFileReturn ==
  [op |-> "none", user |-> NoStoredUser, threw |-> "", authenticated |-> FALSE]

FilesIdle ==
  /\ fileUsers = NoUsers
  /\ fileSessions = << >>
  /\ sessionCookie = NoToken
  /\ currentSession = NoToken
  /\ cookieTimers = {}
  /\ fileCalls = << >>
  /\ fileStarted = 0
  /\ fileReturned = NoFileReturn

\* the rest of the application during a call of the service
FileFrame ==
  UNCHANGED <<mapperVars, appVars, adviceVars, dashboardVars, authVars,
              uploadVars, tokenVars, llmVars,
              swVars>>

FileEmails == { chars_seed_email_typed, chars_new_email, chars_demo_email }
FilePasswords == { chars_password, <<"1","2","3","4","5">> }

fileThrows(op, message) ==
  fileReturned' = [op |-> op, user |-> NoStoredUser, threw |-> message,
                   authenticated |-> FALSE]

fileReturns(op, u) ==
  fileReturned' = [op |-> op, user |-> u, threw |-> "", authenticated |-> FALSE]

\* a call of the service that waits for a promise
fileCall(method, phase, email, password, displayName, users, found, userId) ==
  [ method |-> method, phase |-> phase, email |-> email, password |-> password,
    displayName |-> displayName, users |-> users, found |-> found,
    userId |-> userId, user |-> NoStoredUser, sessions |-> << >>,
    token |-> NoToken, serial |-> fileStarted' ]

fileAwaits(call) ==
  /\ fileCalls' = Append(fileCalls, call)
  /\ fileReturned' = NoFileReturn

\* fileAuthService.signUp up to `await hashPassword(password)`
fileSignUp ==
  /\ fileStarted < MaxFileCalls
  /\ fileStarted' = fileStarted + 1
  /\ \E email \in FileEmails, password \in FilePasswords,
        displayName \in DisplayNames :
       LET got == fileGetUsers(fileUsers)
       IN IF ~isValidEmail(email)
          THEN fileThrows("signUp", INVALID_EMAIL) /\ UNCHANGED <<fileUsers, fileCalls>>
          ELSE IF Len(password) < 6
          THEN fileThrows("signUp", SHORT_PASSWORD) /\ UNCHANGED <<fileUsers, fileCalls>>
          ELSE IF trim(displayName) = << >>
          THEN fileThrows("signUp", NAME_REQUIRED) /\ UNCHANGED <<fileUsers, fileCalls>>
          ELSE /\ fileUsers' = got.stored
               /\ IF findByEmail(got.users, email, 1) # 0
                  THEN fileThrows("signUp", EMAIL_EXISTS) /\ UNCHANGED fileCalls
                  ELSE fileAwaits(fileCall("signUp", "hash", email, password,
                                           displayName, got.users, 0, NoUserId))
  /\ UNCHANGED <<fileSessions, sessionCookie, currentSession, cookieTimers>>
  /\ FileFrame

\* fileAuthService.signIn up to `await hashPassword(password)`
fileSignIn ==
  /\ fileStarted < MaxFileCalls
  /\ fileStarted' = fileStarted + 1
  /\ \E email \in FileEmails, password \in FilePasswords :
       LET got == fileGetUsers(fileUsers)
           i == findByEmail(got.users, email, 1)
       IN IF ~isValidEmail(email)
          THEN fileThrows("signIn", INVALID_EMAIL) /\ UNCHANGED <<fileUsers, fileCalls>>
          ELSE /\ fileUsers' = got.stored
               /\ IF i = 0
                  THEN fileThrows("signIn", EMAIL_NOT_FOUND) /\ UNCHANGED fileCalls
                  ELSE fileAwaits(fileCall("signIn", "hash", email, password,
                                           << >>, got.users, i, got.users[i].id))
  /\ UNCHANGED <<fileSessions, sessionCookie, currentSession, cookieTimers>>
  /\ FileFrame

\* signInWithGoogle, updateUserPreferences and initializeTestData up to
\* `await getUsers()`
fileReadsUsers ==
  /\ fileStarted < MaxFileCalls
  /\ fileStarted' = fileStarted + 1
  /\ LET got == fileGetUsers(fileUsers)
     IN /\ fileUsers' = got.stored
        /\ \/ fileAwaits(fileCall("signInWithGoogle", "users", << >>, << >>,
                                  << >>, got.users, 0, NoUserId))
           \/ fileAwaits(fileCall("initializeTestData", "users", << >>, << >>,
                                  << >>, got.users, 0, NoUserId))
           \/ \E i \in DOMAIN got.users :
                fileAwaits(fileCall("updateUserPreferences", "users", << >>, << >>,
                                    << >>, got.users, 0, got.users[i].id))
  /\ UNCHANGED <<fileSessions, sessionCookie, currentSession, cookieTimers>>
  /\ FileFrame

\* the StoredUser fileAuthService.signUp builds
fileNewUser(call, now) ==
  [ id |-> [prefix |-> "user_", n |-> now, random |-> randomOf(call.serial)],
    email |-> toLowerCase(call.email),
    passwordHash |-> hashPassword(call.password),
    displayName |-> trim(call.displayName),
    photoURL |-> "",
    createdAt |-> now,
    preferences |-> DEFAULT_PREFERENCES ]

\* the user fileAuthService.signInWithGoogle creates
fileGoogleUser(now) ==
  [ id |-> [prefix |-> "google_user_", n |-> now, random |-> ""],
    email |-> chars_demo_email,
    passwordHash |-> [sha256 |-> << >>],
    displayName |-> <<"D","e","m","o"," ","U","s","e","r">>,
    photoURL |-> "https://via.placeholder.com/40",
    createdAt |-> now,
    preferences |-> DEFAULT_PREFERENCES ]

\* createAuthSession(userId) begins: cleanExpiredSessions reads the list
startsSession(i, u) ==
  /\ fileCalls' = [fileCalls EXCEPT ![i] =
                     [@ EXCEPT !.phase = "clean", !.userId = u.id, !.user = u,
                               !.sessions = fileSessions]]
  /\ fileReturned' = NoFileReturn

\* hashPassword resolves: the rest of signUp or signIn up to the first
\* await of createAuthSession
fileHashSettles ==
  /\ \E i \in DOMAIN fileCalls :
       LET call == fileCalls[i]
       IN /\ call.phase = "hash"
          /\ IF call.method = "signIn"
             THEN IF call.users[call.found].passwordHash # hashPassword(call.password)
                  THEN /\ fileThrows("signIn", INCORRECT_PASSWORD)
                       /\ fileCalls' = RemoveAt(fileCalls, i)
                       /\ UNCHANGED fileUsers
                  ELSE /\ startsSession(i, call.users[call.found])
                       /\ UNCHANGED fileUsers
             ELSE /\ fileUsers' =
                       [ present |-> TRUE,
                         users |-> Append(call.users, fileNewUser(call, clock)) ]
                  /\ startsSession(i, fileNewUser(call, clock))
  /\ UNCHANGED <<fileSessions, sessionCookie, currentSession, cookieTimers,
                 fileStarted>>
  /\ FileFrame

\* getUsers resolves: the rest of signInWithGoogle, updateUserPreferences
\* or initializeTestData
fileUsersSettle ==
  /\ \E i \in DOMAIN fileCalls :
       LET call == fileCalls[i]
           g == findByExactEmail(call.users, chars_demo_email, 1)
       IN /\ call.phase = "users"
          /\ CASE call.method = "signInWithGoogle" ->
                    IF g # 0
                    THEN /\ startsSession(i, call.users[g])
                         /\ UNCHANGED fileUsers
                    ELSE /\ fileUsers' =
                              [ present |-> TRUE,
                                users |-> Append(call.users, fileGoogleUser(clock)) ]
                         /\ startsSession(i, fileGoogleUser(clock))
               [] call.method = "initializeTestData" ->
                    /\ fileUsers' =
                         IF findByExactEmail(call.users, fileTestUser.email, 1) = 0
                         THEN [present |-> TRUE, users |-> Append(call.users, fileTestUser)]
                         ELSE fileUsers
                    /\ fileCalls' = RemoveAt(fileCalls, i)
                    /\ fileReturns("initializeTestData", NoStoredUser)
               [] call.method = "updateUserPreferences" ->
                    /\ fileCalls' = RemoveAt(fileCalls, i)
                    /\ IF findById(call.users, call.userId, 1) = 0
                       THEN fileThrows("updateUserPreferences", "User not found")
                              /\ UNCHANGED fileUsers
                       ELSE /\ fileUsers' =
                                 [ present |-> TRUE,
                                   users |-> withPreferences(call.users, call.userId,
                                                             [theme |-> "dark"]) ]
                            /\ fileReturns("updateUserPreferences", NoStoredUser)
  /\ UNCHANGED <<fileSessions, sessionCookie, currentSession, cookieTimers,
                 fileStarted>>
  /\ FileFrame

\* cleanExpiredSessions after `await getSessions()`: the filtered list is
\* stored; createAuthSession then reads the list again
cleanExpiredSessions ==
  /\ \E i \in DOMAIN fileCalls :
       /\ fileCalls[i].phase = "clean"
       /\ fileSessions' = cleanExpiredTokens(fileCalls[i].sessions, clock)
       /\ fileCalls' = [fileCalls EXCEPT ![i] =
                          [@ EXCEPT !.phase = "create", !.sessions = fileSessions']]
  /\ fileReturned' = NoFileReturn
  /\ UNCHANGED <<fileUsers, sessionCookie, currentSession, cookieTimers, fileStarted>>
  /\ FileFrame

\* createAuthSession after its `await getSessions()`: the new session is
\* stored, saveCurrentToken sets the cookie and the localStorage key, and
\* the call returns the user
createAuthSession ==
  /\ \E i \in DOMAIN fileCalls :
       LET call == fileCalls[i]
           token == tokenOf(call.serial)
       IN /\ call.phase = "create"
          /\ fileSessions' =
               Append(call.sessions,
                      [ userId |-> call.userId, token |-> token,
                        expiresAt |-> clock + TOKEN_EXPIRY_MS ])
          /\ sessionCookie' = token
          /\ currentSession' = token
          /\ cookieTimers' = cookieTimers \cup { token }
          /\ fileCalls' = RemoveAt(fileCalls, i)
          /\ fileReturns(call.method, toUser(call.user))
  /\ UNCHANGED <<fileUsers, fileStarted>>
  /\ FileFrame

\* the callback of setTimeout(..., 100) in setCookie: when no cookie of
\* the name is found it is set again without SameSite and Secure
cookieVerified ==
  /\ \E token \in cookieTimers :
       /\ cookieTimers' = cookieTimers \ { token }
       /\ sessionCookie' = IF sessionCookie = NoToken THEN token ELSE sessionCookie
  /\ UNCHANGED <<fileUsers, fileSessions, currentSession, fileCalls, fileStarted,
                 fileReturned>>
  /\ FileFrame

\* fileAuthService.signOut up to `await getSessions()`
fileSignOut ==
  /\ fileStarted < MaxFileCalls
  /\ fileStarted' = fileStarted + 1
  /\ IF getCurrentToken(sessionCookie, currentSession) = NoToken
     THEN fileReturns("signOut", NoStoredUser) /\ UNCHANGED fileCalls
     ELSE fileAwaits([ fileCall("signOut", "sessions", << >>, << >>, << >>,
                                << >>, 0, NoUserId)
                       EXCEPT !.sessions = fileSessions,
                              !.token = getCurrentToken(sessionCookie, currentSession) ])
  /\ UNCHANGED <<fileUsers, fileSessions, sessionCookie, currentSession, cookieTimers>>
  /\ FileFrame

\* the rest of signOut: the list without the token, then the cookie and
\* the localStorage key
fileSignOutSettles ==
  /\ \E i \in DOMAIN fileCalls :
       /\ fileCalls[i].phase = "sessions"
       /\ fileSessions' =
            SelectSeq(fileCalls[i].sessions, LAMBDA s : s.token # fileCalls[i].token)
       /\ fileCalls' = RemoveAt(fileCalls, i)
  /\ sessionCookie' = NoToken
  /\ currentSession' = NoToken
  /\ fileReturns("signOut", NoStoredUser)
  /\ UNCHANGED <<fileUsers, cookieTimers, fileStarted>>
  /\ FileFrame

\* fileAuthService.getCurrentUser() as a step, with what getSessionInfo
\* reports in the same state
fileGetsCurrentUser ==
  /\ fileReturned' =
       [ op |-> "getCurrentUser",
         user |-> fileGetCurrentUser,
         threw |-> "",
         authenticated |->
           getSessionInfo(fileSessions,
                          getCurrentToken(sessionCookie, currentSession),
                          clock).isAuthenticated ]
  /\ UNCHANGED <<fileUsers, fileSessions, sessionCookie, currentSession,
                 cookieTimers, fileCalls, fileStarted>>
  /\ FileFrame

-----------------------------------------------------------------------------
(* services/llmService                                                     *)

MaxLlmCalls == 3

maxHistoryLength == 10

NoModel == "null"
MODEL_UNAVAILABLE == "Q&A model not available"
MODEL_LOAD_FAILED == "Unable to load agricultural Q&A model"

\* LLMService.isModelReady()
isModelReady(m, loading) == m # NoModel /\ ~loading

NoLlmReturn ==
  [ method |-> "none", outcome |-> "none", message |-> "", response |-> "none",
    duringLoad |-> FALSE ]

LlmIdle ==
  /\ qaModel = NoModel
  /\ isLoading = FALSE
  /\ conversationHistory = 0
  /\ llmCalls = << >>
  /\ llmStarted = 0
  /\ llmReturned = NoLlmReturn

\* the rest of the application during a call of the service
LlmFrame ==
  UNCHANGED <<mapperVars, appVars, adviceVars, dashboardVars, authVars,
              uploadVars, tokenVars, fileVars,
              swVars>>

llmRejects(call, message) ==
  llmReturned' = [ method |-> call.method, outcome |-> "rejected",
                   message |-> message, response |-> "none",
                   duringLoad |-> call.duringLoad ]

llmResolves(call, response) ==
  llmReturned' = [ method |-> call.method, outcome |-> "resolved",
                   message |-> "", response |-> response,
                   duringLoad |-> call.duringLoad ]

llmCall(method, phase) ==
  [method |-> method, phase |-> phase, duringLoad |-> isLoading]

\* LLMService.initializeModel() up to `await pipeline(...)`, or its return
\* when the model is there or a load is in flight
initializeModel ==
  /\ llmStarted < MaxLlmCalls
  /\ llmStarted' = llmStarted + 1
  /\ IF qaModel # NoModel \/ isLoading
     THEN /\ llmResolves(llmCall("initializeModel", "done"), "none")
          /\ UNCHANGED <<isLoading, llmCalls>>
     ELSE /\ isLoading' = TRUE
          /\ llmCalls' = Append(llmCalls, llmCall("initializeModel", "load"))
          /\ llmReturned' = NoLlmReturn
  /\ UNCHANGED <<qaModel, conversationHistory>>
  /\ LlmFrame

\* LLMService.generateResponse(message, context) up to its first await:
\* of initializeModel when the model is not ready, else of the model
generateResponse ==
  /\ llmStarted < MaxLlmCalls
  /\ llmStarted' = llmStarted + 1
  /\ IF isModelReady(qaModel, isLoading)
     THEN /\ conversationHistory' = conversationHistory + 1
          /\ llmCalls' = Append(llmCalls, llmCall("generateResponse", "answer"))
          /\ UNCHANGED isLoading
     ELSE IF qaModel # NoModel \/ isLoading
     THEN /\ llmCalls' = Append(llmCalls, llmCall("generateResponse", "returned"))
          /\ UNCHANGED <<isLoading, conversationHistory>>
     ELSE /\ isLoading' = TRUE
          /\ llmCalls' = Append(llmCalls, llmCall("generateResponse", "load"))
          /\ UNCHANGED conversationHistory
  /\ llmReturned' = NoLlmReturn
  /\ UNCHANGED qaModel
  /\ LlmFrame

\* generateResponse after initializeModel has resolved: the check of
\* this.qaModel, the user message, the call of the model
asksModel(i, m) ==
  IF m = NoModel
  THEN /\ llmRejects(llmCalls[i], MODEL_UNAVAILABLE)
       /\ llmCalls' = RemoveAt(llmCalls, i)
       /\ UNCHANGED conversationHistory
  ELSE /\ conversationHistory' = conversationHistory + 1
       /\ llmCalls' = [llmCalls EXCEPT ![i] = [@ EXCEPT !.phase = "answer"]]
       /\ llmReturned' = NoLlmReturn

\* pipeline(...) settles: the rest of initializeModel, and of the
\* generateResponse that called it
pipelineSettles ==
  /\ \E i \in DOMAIN llmCalls, loaded \in BOOLEAN :
       /\ llmCalls[i].phase = "load"
       /\ isLoading' = FALSE
       /\ IF loaded
          THEN /\ qaModel' = "distilbert-base-cased-distilled-squad"
               /\ IF llmCalls[i].method = "initializeModel"
                  THEN /\ llmResolves(llmCalls[i], "none")
                       /\ llmCalls' = RemoveAt(llmCalls, i)
                       /\ UNCHANGED conversationHistory
                  ELSE asksModel(i, qaModel')
          ELSE /\ UNCHANGED <<qaModel, conversationHistory>>
               /\ llmRejects(llmCalls[i], MODEL_LOAD_FAILED)
               /\ llmCalls' = RemoveAt(llmCalls, i)
  /\ UNCHANGED llmStarted
  /\ LlmFrame

\* generateResponse continues after an initializeModel that returned at
\* once
initializeModelReturned ==
  /\ \E i \in DOMAIN llmCalls :
       /\ llmCalls[i].phase = "returned"
       /\ asksModel(i, qaModel)
  /\ UNCHANGED <<qaModel, isLoading, llmStarted>>
  /\ LlmFrame

\* this.qaModel({ question, context }) settles: the response of the model,
\* or of getFallbackResponse in the catch block
modelAnswers ==
  /\ \E i \in DOMAIN llmCalls, answered \in BOOLEAN :
       /\ llmCalls[i].phase = "answer"
       /\ llmCalls' = RemoveAt(llmCalls, i)
       /\ IF answered
          THEN /\ conversationHistory' =
                    IF conversationHistory + 1 > maxHistoryLength
                    THEN maxHistoryLength ELSE conversationHistory + 1
               /\ llmResolves(llmCalls[i], "model")
          ELSE /\ UNCHANGED conversationHistory
               /\ llmResolves(llmCalls[i], "fallback")
  /\ UNCHANGED <<qaModel, isLoading, llmStarted>>
  /\ LlmFrame

\* LLMService.clearHistory()
clearHistory ==
  /\ conversationHistory # 0
  /\ conversationHistory' = 0
  /\ UNCHANGED <<qaModel, isLoading, llmCalls, llmStarted, llmReturned>>
  /\ LlmFrame

-----------------------------------------------------------------------------
(* public/sw.js                                                            *)

MaxRequests == 2

CACHE_NAME == "snapfarm-v1"
STATIC_CACHE == "snapfarm-static-v1"
DYNAMIC_CACHE == "snapfarm-dynamic-v1"
CacheNames == { CACHE_NAME, STATIC_CACHE, DYNAMIC_CACHE }

\* url.pathname of the requests the pages make
url_model_json == <<"/","m","o","d","e","l","s","/","m","o","d","e","l",".","j","s","o","n">>
url_weights_bin == <<"/","m","o","d","e","l","s","/","w","e","i","g","h","t","s",".","b","i","n">>
url_index_css == <<"/","s","r","c","/","i","n","d","e","x",".","c","s","s">>
url_logo_png == <<"/","l","o","g","o",".","p","n","g">>
url_root == <<"/">>
url_main_tsx == <<"/","s","r","c","/","m","a","i","n",".","t","s","x">>
url_index_html == <<"/","i","n","d","e","x",".","h","t","m","l">>
url_api == <<"/","a","p","i","/","t","i","p","s">>

\* the lists cached at installation, with paths of this model
STATIC_FILES == { url_root, url_index_html, url_main_tsx, url_index_css }
MODEL_FILES == { url_model_json, url_weights_bin }

Pathnames ==
  { url_model_json, url_weights_bin, url_index_css, url_logo_png, url_root,
    url_main_tsx, url_index_html, url_api }

Requests == [method : { "GET", "POST" }, pathname : Pathnames, mode : { "navigate", "cors" }]

\* String.prototype.startsWith
startsWith(s, prefix) ==
  Len(s) >= Len(prefix) /\ SubSeq(s, 1, Len(prefix)) = prefix

endsWith(s, suffix) ==
  Len(s) >= Len(suffix) /\ SubSeq(s, Len(s) - Len(suffix) + 1, Len(s)) = suffix

\* the alternatives of /\.(js|css|png|jpg|jpeg|svg|ico|woff2?)$/
StaticExtensions ==
  { <<"j","s">>,
    <<"c","s","s">>,
    <<"p","n","g">>,
    <<"j","p","g">>,
    <<"j","p","e","g">>,
    <<"s","v","g">>,
    <<"i","c","o">>,
    <<"w","o","f","f">>,
    <<"w","o","f","f","2">> }

isStaticAsset(pathname) ==
  \E extension \in StaticExtensions : endsWith(pathname, <<".">> \o extension)

\* the fetch listener: which strategy answers a GET request, with which
\* cache
routeOf(pathname) ==
  IF startsWith(pathname, <<"/","m","o","d","e","l","s","/">>)
  THEN [strategy |-> "cacheFirst", cacheName |-> CACHE_NAME]
  ELSE IF isStaticAsset(pathname)
  THEN [strategy |-> "cacheFirst", cacheName |-> STATIC_CACHE]
  ELSE IF pathname = url_root \/ startsWith(pathname, <<"/","s","r","c","/">>)
  THEN [strategy |-> "networkFirst", cacheName |-> STATIC_CACHE]
  ELSE [strategy |-> "networkFirst", cacheName |-> DYNAMIC_CACHE]

\* cache.match(request): the stored response or none
NoResponse == [ok |-> FALSE, from |-> "none"]

cacheMatch(cache, pathname) ==
  IF \E e \in cache : e.pathname = pathname
  THEN [ ok |-> (CHOOSE e \in cache : e.pathname = pathname).ok, from |-> "cache" ]
  ELSE NoResponse

\* cache.put(request, response.clone())
cachePut(cache, pathname, response) ==
  { e \in cache : e.pathname # pathname }
    \cup { [pathname |-> pathname, ok |-> response.ok] }

\* (mutant) every network response is stored
putIfOk_whateverStatus(cache, pathname, response) ==
  cachePut(cache, pathname, response)

\* if (networkResponse.ok) { cache.put(request, networkResponse.clone()) }
putIfOk(cache, pathname, response) ==
  IF response.ok THEN cachePut(cache, pathname, response) ELSE cache

\* cache.addAll(files): every response is fetched and stored, or, when one
\* of them is not ok or fails, none
addAll(cache, files, allOk) ==
  IF allOk
  THEN { e \in cache : e.pathname \notin files }
         \cup { [pathname |-> f, ok |-> TRUE] : f \in files }
  ELSE cache

NoServed ==
  [ method |-> "", pathname |-> << >>, intercepted |-> FALSE, source |-> "none",
    ok |-> FALSE, fetched |-> FALSE, cachedAtEvent |-> FALSE ]

SwIdle ==
  /\ swCaches = [name \in CacheNames |-> {}]
  /\ swInstalled = FALSE
  /\ swHandlers = << >>
  /\ swStarted = 0
  /\ swServed = NoServed

\* the rest of the application during an event of the service worker
SwFrame ==
  UNCHANGED <<mapperVars, appVars, adviceVars, dashboardVars, authVars,
              uploadVars, tokenVars, fileVars, llmVars>>

\* the install listener: both lists are cached; a failure of the model
\* files is tolerated
install ==
  /\ ~swInstalled
  /\ swInstalled' = TRUE
  /\ \E staticOk \in BOOLEAN, modelOk \in BOOLEAN :
       swCaches' =
         [swCaches EXCEPT
            ![STATIC_CACHE] = addAll(@, STATIC_FILES, staticOk),
            ![CACHE_NAME] = addAll(@, MODEL_FILES, modelOk)]
  /\ swServed' = NoServed
  /\ UNCHANGED <<swHandlers, swStarted>>
  /\ SwFrame

\* the handler answers the request
responds(h, response, source) ==
  swServed' =
    [ method |-> h.request.method, pathname |-> h.request.pathname,
      intercepted |-> TRUE, source |-> source, ok |-> response.ok,
      fetched |-> h.fetched, cachedAtEvent |-> h.cachedAtEvent ]

\* the fetch listener up to the first await of the strategy
fetchEvent ==
  /\ swStarted < MaxRequests
  /\ swStarted' = swStarted + 1
  /\ \E request \in Requests :
       LET route == routeOf(request.pathname)
       IN IF request.method # "GET"
          THEN /\ swServed' =
                    [ NoServed EXCEPT !.method = request.method,
                                      !.pathname = request.pathname ]
               /\ UNCHANGED swHandlers
          ELSE /\ swHandlers' =
                    Append(swHandlers,
                           [ request |-> request, strategy |-> route.strategy,
                             cacheName |-> route.cacheName,
                             phase |-> IF route.strategy = "cacheFirst"
                                       THEN "match" ELSE "fetch",
                             fetched |-> route.strategy = "networkFirst",
                             cachedAtEvent |->
                               cacheMatch(swCaches[route.cacheName],
                                          request.pathname) # NoResponse ])
               /\ swServed' = NoServed
  /\ UNCHANGED <<swCaches, swInstalled>>
  /\ SwFrame

\* cacheFirstStrategy after `await cache.match(request)`
cacheFirstMatched ==
  /\ \E i \in DOMAIN swHandlers :
       LET h == swHandlers[i]
           cached == cacheMatch(swCaches[h.cacheName], h.request.pathname)
       IN /\ h.phase = "match"
          /\ IF cached # NoResponse
             THEN /\ responds(h, cached, "cache")
                  /\ swHandlers' = RemoveAt(swHandlers, i)
             ELSE /\ swHandlers' =
                       [swHandlers EXCEPT ![i] =
                          [@ EXCEPT !.phase = "fetch", !.fetched = TRUE]]
                  /\ swServed' = NoServed
  /\ UNCHANGED <<swCaches, swInstalled, swStarted>>
  /\ SwFrame

\* what the network does with fetch(request)
FetchOutcomes == { "ok", "notOk", "failed" }

\* `await fetch(request)` settles: the rest of either strategy
fetchSettles ==
  /\ \E i \in DOMAIN swHandlers, outcome \in FetchOutcomes :
       LET h == swHandlers[i]
           cache == swCaches[h.cacheName]
           networkResponse == [ok |-> outcome = "ok", from |-> "network"]
           cached == cacheMatch(cache, h.request.pathname)
           offline == cacheMatch(cache, url_root)
       IN /\ h.phase = "fetch"
          /\ swHandlers' = RemoveAt(swHandlers, i)
          /\ IF outcome # "failed"
             THEN /\ swCaches' =
                       [swCaches EXCEPT ![h.cacheName] =
                          putIfOk(@, h.request.pathname, networkResponse)]
                  /\ responds(h, networkResponse, "network")
             ELSE /\ UNCHANGED swCaches
                  /\ IF h.strategy = "cacheFirst"
                     THEN IF includes(h.request.pathname, <<"m","o","d","e","l",".","j","s","o","n">>)
                          THEN responds(h, [ok |-> TRUE, from |-> "fallback"], "fallback")
                          ELSE responds(h, NoResponse, "error")
                     ELSE IF cached # NoResponse
                     THEN responds(h, cached, "cache")
                     ELSE IF h.request.mode = "navigate" /\ offline # NoResponse
                     THEN responds(h, offline, "cache")
                     ELSE responds(h, NoResponse, "error")
  /\ UNCHANGED <<swInstalled, swStarted>>
  /\ SwFrame

ServicesIdle == TokensIdle /\ FilesIdle /\ LlmIdle /\ SwIdle

-----------------------------------------------------------------------------
(* ImageUpload                                                             *)

MaxFiles == 3

validTypes == { "image/jpeg", "image/png", "image/webp" }
maxSize == 10 * 1024 * 1024

\* validateImageFile with a size limit that excludes the limit itself
validateImageFile_belowMaxSize(file) ==
  file.type \in validTypes /\ file.size < maxSize

validateImageFile(file) ==
  file.type \in validTypes /\ file.size <= maxSize

INVALID_FILE_MESSAGE == "Please select a valid image file (JPEG, PNG, WebP) under 10MB"

\* files the user can choose or drop: file.type and file.size
FileTypes ==
  { "image/jpeg", "image/png", "image/webp", "image/gif", "image/svg+xml",
    "application/pdf", "" }
FileSizes == { 1024, maxSize - 1, maxSize, maxSize + 1 }
Files == [type : FileTypes, size : FileSizes]

NoFile == [type |-> "", size |-> 0]

UploadIdle ==
  /\ uploadError = ""
  /\ offeredFile = NoFile
  /\ filesOffered = 0

\* ImageUpload.handleFileSelect(file), from handleInputChange or handleDrop
handleFileSelect ==
  /\ takesFiles
  /\ filesOffered < MaxFiles
  /\ filesOffered' = filesOffered + 1
  /\ \E file \in Files :
       /\ offeredFile' = file
       /\ IF ~validateImageFile(file)
          THEN /\ uploadError' = INVALID_FILE_MESSAGE
               /\ UNCHANGED <<mapperVars, appVars, pageVars>>
          ELSE /\ uploadError' = ""
               /\ onImageSelect

-----------------------------------------------------------------------------
(* Inference: promises settle                                              *)

\* the state a settling promise leaves alone
SettleStep ==
  /\ UNCHANGED <<currentView, user, selectedImage, showAdditionalDataForm,
                 additionalData, readyForInference, hasEnvironmentalData>>
  /\ UNCHANGED <<diagnoses, metrics, saved, quotaExceeded, uploads>>
  /\ UNCHANGED <<mapperVars, viewVars>>

\* initializeModel after `await loadModel('mobilenet')`: the model loaded
\* and validateModel accepted it, or the catch block ran (lines 103..117).
\* The setters reach the instance that started the load only.
ModelLoadOutcomes == { "loaded", "invalid", "failed" }

loadedModel(outcome) == IF outcome = "loaded" THEN "mobilenet" ELSE "null"

initializeModelSettles ==
  /\ modelLoad # "none"
  /\ delivered' = NoDelivery
  /\ UNCHANGED <<predictions, processedImageUrl, error, lastSavedDiagnosisId,
                 processingRef, resetTimers>>
  /\ UNCHANGED <<diagnosisRecords, dashboardData, recorded, classifierCalls,
                 resultsDelivered>>
  /\ SettleStep
  /\ \E outcome \in ModelLoadOutcomes :
       Rerender("ready", loadedModel(outcome),
                IF modelLoad = "owned" THEN "ready" ELSE modelStatus,
                IF modelLoad = "owned" THEN loadedModel(outcome) ELSE model,
                processedImageName, "none", runs)

\* processImage lines 196..202: setProcessedImageName, then onResults
onResults(i, results, cause) ==
  /\ handleInferenceResults(runs[i], results, toDataURL(runs[i].image))
  /\ error' = error
  /\ resultsDelivered' = [resultsDelivered EXCEPT ![runs[i].image.upload] = @ + 1]
  /\ delivered' =
       [ callback |-> "onResults", cause |-> cause, run |-> runs[i],
         results |-> results,
         outcome |-> outcomeOf(runs[i], results, toDataURL(runs[i].image)) ]
  /\ SettleStep
  /\ Rerender(globalModelStatus, globalModelCache, modelStatus, model,
              IF runs[i].owner THEN imageName(runs[i].image) ELSE processedImageName,
              modelLoad, RemoveAt(runs, i))

\* what the catch block of processImage passes to onError:
\* error instanceof Error ? error.message : 'Inference failed'
errorMessage(cause) ==
  CASE cause = "createImageElement" -> "Inference failed"
    [] cause = "preprocessImage" -> "Cannot read properties of null"
    [] cause = "classify" -> "Inference failed: classify rejected"

\* the catch block as the claim of a fallback list would have it
onError_fallbackList(i, cause) ==
  /\ classifierCalls' = classifierCalls
  /\ onResults(i, predictionsWithMetrics(MOCK_PREDICTIONS), cause)

\* processImage lines 207..209 and AppLayout.handleInferenceError
onError(i, cause) ==
  /\ error' = errorMessage(cause)
  /\ predictions' = << >>
  /\ processedImageUrl' = NoUrl
  /\ UNCHANGED <<lastSavedDiagnosisId, processingRef, resetTimers>>
  /\ UNCHANGED <<diagnosisRecords, dashboardData, recorded, classifierCalls,
                 resultsDelivered>>
  /\ delivered' =
       [ callback |-> "onError", cause |-> cause, run |-> runs[i],
         results |-> << >>, outcome |-> "error" ]
  /\ SettleStep
  /\ Rerender(globalModelStatus, globalModelCache, modelStatus, model,
              processedImageName, modelLoad, RemoveAt(runs, i))

\* createImageElement rejects (img.onerror) or preprocessImage throws
imageFails ==
  \E i \in DOMAIN runs :
    /\ runs[i].stage = "createImageElement"
    /\ \E cause \in { "createImageElement", "preprocessImage" } : onError(i, cause)

\* the image loaded and model is null: the mock list (lines 160..164)
mockPredictions ==
  \E i \in DOMAIN runs :
    /\ runs[i].stage = "createImageElement" /\ runs[i].model = "null"
    /\ classifierCalls' = [classifierCalls EXCEPT ![runs[i].image.upload] = @ + 1]
    /\ onResults(i, predictionsWithMetrics(MOCK_PREDICTIONS), "mock")

\* the image loaded and model is set: runModelInference is called
\* (line 156) and processImage waits for it
runModelInference ==
  \E i \in DOMAIN runs :
    /\ runs[i].stage = "createImageElement" /\ runs[i].model # "null"
    /\ classifierCalls' = [classifierCalls EXCEPT ![runs[i].image.upload] = @ + 1]
    /\ runs' = [runs EXCEPT ![i].stage = "classify"]
    /\ delivered' = NoDelivery
    /\ UNCHANGED <<layoutVars, storageVars, globalModelCache, globalModelStatus,
                   mounted, modelStatus, model, processedImageName, modelLoad>>
    /\ UNCHANGED <<uploads, runsStarted, recorded, saved, resultsDelivered>>
    /\ UNCHANGED <<mapperVars, viewVars>>

\* what model.classify resolves with here, and the jitter drawn
AppClassifierOutputs ==
  { << [className |-> CN_broccoli, probability |-> 6] >>,
    << [className |-> CN_leaf_beetle, probability |-> 6],
       [className |-> CN_teapot, probability |-> 1] >> }

\* every score drawn the same jitter: the normalised list is then the same
\* for every value of it
AppRandomFactors == { [k \in ScoreKeys |-> 105] }

ModelResults ==
  { predictionsWithMetrics(
      runInference("mobilenet", classified, << >>, DEFAULT_LABELS,
                   INFERENCE_TOP_K, randomFactor)) :
      classified \in AppClassifierOutputs, randomFactor \in AppRandomFactors }

\* runModelInference resolves
inferenceResolves ==
  \E i \in DOMAIN runs :
    /\ runs[i].stage = "classify"
    /\ classifierCalls' = classifierCalls
    /\ \E results \in ModelResults : onResults(i, results, "model")

\* runModelInference rejects: model.classify threw
inferenceRejects ==
  \E i \in DOMAIN runs :
    /\ runs[i].stage = "classify"
    /\ onError(i, "classify")

-----------------------------------------------------------------------------
(* Dashboard                                                               *)

MaxDiagnoses == 3

\* allRecords.filter(record => record.userId === userId)
getUserDiagnosisRecords(allRecords, userId) ==
  SelectSeq(allRecords, LAMBDA r : r.userId = userId)

\* the metrics loadData computes itself when no dashboard data is stored
\* (Dashboard lines 45..59)
metricsOfUserDiagnoses(userDiagnoses) ==
  [ totalDiagnoses |-> Len(userDiagnoses),
    healthyPlants |-> CountOf(userDiagnoses, IsHealthy),
    diseasedPlants |-> Len(userDiagnoses) - CountOf(userDiagnoses, IsHealthy),
    waterSaved |-> waterSavedOf(userDiagnoses),
    pesticidesAvoided |-> pesticidesAvoidedOf(userDiagnoses),
    diseaseFrequency |-> diseaseFrequencyOf(userDiagnoses),
    averageSoilPH |-> averageSoilPHOf(userDiagnoses, 0),
    averageTemperature |-> averageTemperatureOf(userDiagnoses, 0),
    averageHumidity |-> averageHumidityOf(userDiagnoses, 0) ]

\* useState<DashboardMetrics | null>(null)
NoMetrics == [totalDiagnoses |-> 0 - 1]

\* loadData with a user (Dashboard lines 24..63): metricsData || {...}
loadData(u) ==
  /\ dashboardMetrics' =
       IF dashboardData' # NoDashboardData THEN dashboardData'
       ELSE metricsOfUserDiagnoses(getUserDiagnosisRecords(diagnosisRecords', u.id))
  /\ recentDiagnoses' = SliceTo(getUserDiagnosisRecords(diagnosisRecords', u.id), 5)
  /\ showsEnvironmentalData' =
       (Len(SelectSeq(getUserDiagnosisRecords(diagnosisRecords', u.id), hasAdditionalData)) > 0)
  /\ dashboardLoading' = FALSE
  /\ loadedNow' = TRUE

\* the Dashboard component is not in the tree
DashboardIdle ==
  /\ dashboardMetrics = NoMetrics
  /\ recentDiagnoses = << >>
  /\ dashboardLoading = TRUE
  /\ showsEnvironmentalData = FALSE
  /\ loadedNow = FALSE

\* what the user can leave in the form: the initial values, another pH, or
\* a cleared pH or temperature field
FormInputs ==
  { FormDefaults,
    formData(Milli(650), Milli(2400), Milli(6500)),
    formData(NaN, Milli(2400), Milli(6500)),
    formData(Milli(700), NaN, Milli(6500)) }

HEALTHY_PREDICTIONS ==
  << [label |-> "Healthy",      confidence |-> [num |-> Dec(90), den |-> Unit]],
     [label |-> "Early Blight", confidence |-> [num |-> Dec(6),  den |-> Unit]],
     [label |-> "Late Blight",  confidence |-> [num |-> Dec(4),  den |-> Unit]] >>

\* result lists of completed diagnoses
DashboardResults ==
  { predictionsWithMetrics(MOCK_PREDICTIONS),
    predictionsWithMetrics(HEALTHY_PREDICTIONS) }

-----------------------------------------------------------------------------
(* The diagnose workflow as a state machine                                *)

MapperIdle ==
  /\ mPreds = [isNull |-> FALSE, items |-> << >>]
  /\ mLabels = DEFAULT_LABELS
  /\ mTopK = INFERENCE_TOP_K
  /\ mCall = "none"
  /\ mModel = "null"
  /\ mThrew = FALSE
  /\ mResult = << >>

StorageEmpty ==
  /\ diagnosisRecords = << >>
  /\ dashboardData = NoDashboardData
  /\ diagnoses = << >>
  /\ metrics = calculateMetrics(<< >>)
  /\ quotaExceeded = FALSE
  /\ recorded = 0
  /\ saved = 0

ViewsIdle ==
  AdviceIdle /\ DashboardIdle /\ UploadIdle /\ AuthIdle /\ ServicesIdle

\* AppLayout and the Inference module as first loaded
AppStart ==
  /\ user = [id |-> USER_ID, theme |-> "light"]
  /\ selectedImage = NoImage
  /\ predictions = << >>
  /\ processedImageUrl = NoUrl
  /\ error = ""
  /\ lastSavedDiagnosisId = << >>
  /\ showAdditionalDataForm = FALSE
  /\ additionalData = NoAdditionalData
  /\ readyForInference = FALSE
  /\ hasEnvironmentalData = FALSE
  /\ processingRef = FALSE
  /\ resetTimers = 0
  /\ globalModelCache = "null"
  /\ globalModelStatus = "never-loaded"
  /\ mounted = FALSE
  /\ modelStatus = "never-loaded"
  /\ model = "null"
  /\ processedImageName = NoName
  /\ modelLoad = "none"
  /\ runs = << >>
  /\ uploads = 0
  /\ runsStarted = 0
  /\ classifierCalls = [u \in 1..MaxUploads |-> 0]
  /\ resultsDelivered = [u \in 1..MaxUploads |-> 0]
  /\ delivered = NoDelivery

AppInit ==
  /\ currentView \in Views
  /\ AppStart
  /\ StorageEmpty
  /\ MapperIdle
  /\ ViewsIdle

AppNext ==
  \/ handleImageSelect
  \/ handleAdditionalDataSubmit
  \/ handleAdditionalDataSkip
  \/ resetDiagnosis
  \/ handleNavigation
  \/ updateUserPreferences
  \/ resetTimerFires
  \/ initializeModelSettles
  \/ imageFails
  \/ mockPredictions
  \/ runModelInference
  \/ inferenceResolves
  \/ inferenceRejects

AppSpec == AppInit /\ [][AppNext]_vars

\* a pending promise settles
PromiseSettles ==
  \/ initializeModelSettles
  \/ imageFails
  \/ mockPredictions
  \/ runModelInference
  \/ inferenceResolves
  \/ inferenceRejects

\* the same behaviours when loadModel, createImageElement and the
\* classifier do settle and the timers fire; the user may stop at any time
FairAppSpec ==
  /\ AppSpec
  /\ WF_vars(PromiseSettles)
  /\ WF_vars(resetTimerFires)

-----------------------------------------------------------------------------
(* The two histories on their own: any sequence of recording calls         *)

\* the n-th record handed to recordDiagnosisToLocalStorage
sampleRecord(n) ==
  diagnosisRecord(n, [id |-> USER_ID, theme |-> "light"],
                  toDataURL([upload |-> n, tail |-> "RRRQB//2Q=="]),
                  IF n % 2 = 0
                  THEN predictionsWithMetrics(MOCK_PREDICTIONS)
                  ELSE predictionsWithMetrics(FALLBACK_PREDICTIONS),
                  n % 3 = 0, NoAdditionalData)

\* the n-th DiagnosisResult handed to saveDiagnosis
sampleDiagnosis(n) ==
  [ id |-> n,
    predictions |-> IF n % 2 = 0
                    THEN predictionsWithMetrics(MOCK_PREDICTIONS)
                    ELSE predictionsWithMetrics(FALLBACK_PREDICTIONS) ]

StorageInit ==
  /\ currentView = "diagnose"
  /\ AppStart
  /\ StorageEmpty
  /\ MapperIdle
  /\ ViewsIdle

recordDiagnosis ==
  /\ recorded < MaxRecorded
  /\ recordDiagnosisToLocalStorage(sampleRecord(recorded + 1))
  /\ UNCHANGED <<diagnoses, metrics, saved, quotaExceeded>>
  /\ UNCHANGED <<layoutVars, inferenceVars, mapperVars, viewVars>>
  /\ UNCHANGED <<uploads, runsStarted, classifierCalls, resultsDelivered, delivered>>

\* saveDiagnosis: setItem of the capped list, then updateMetrics; a
\* throwing setItem leaves both keys
saveDiagnosis ==
  /\ saved < MaxRecorded
  /\ IF quotaExceeded
     THEN UNCHANGED <<diagnoses, metrics, saved>>
     ELSE /\ diagnoses' = updatedDiagnoses(sampleDiagnosis(saved + 1), diagnoses)
          /\ metrics' = calculateMetrics(diagnoses')
          /\ saved' = saved + 1
  /\ UNCHANGED <<diagnosisRecords, dashboardData, recorded, quotaExceeded>>
  /\ UNCHANGED <<layoutVars, inferenceVars, mapperVars, viewVars>>
  /\ UNCHANGED <<uploads, runsStarted, classifierCalls, resultsDelivered, delivered>>

\* the origin's storage fills up or is freed by other keys
quotaChanges ==
  /\ quotaExceeded' = ~quotaExceeded
  /\ UNCHANGED <<diagnosisRecords, dashboardData, diagnoses, metrics, recorded, saved>>
  /\ UNCHANGED <<layoutVars, inferenceVars, mapperVars, viewVars>>
  /\ UNCHANGED <<uploads, runsStarted, classifierCalls, resultsDelivered, delivered>>

StorageNext == recordDiagnosis \/ saveDiagnosis \/ quotaChanges

StorageSpec == StorageInit /\ [][StorageNext]_vars

-----------------------------------------------------------------------------
(* The dashboard over the diagnosis history                                *)

DashboardInit ==
  /\ currentView = "diagnose"
  /\ AppStart
  /\ StorageEmpty
  /\ MapperIdle
  /\ ViewsIdle

DashboardFrame ==
  /\ UNCHANGED <<selectedImage, predictions, processedImageUrl, error,
                 lastSavedDiagnosisId, showAdditionalDataForm, additionalData,
                 readyForInference, hasEnvironmentalData, processingRef, resetTimers>>
  /\ UNCHANGED <<inferenceVars, mapperVars, adviceVars, authVars, uploadVars,
                 serviceVars>>
  /\ UNCHANGED <<diagnoses, metrics, saved, quotaExceeded>>
  /\ UNCHANGED <<uploads, runsStarted, classifierCalls, resultsDelivered, delivered>>

\* a diagnosis completes on the diagnose view: handleInferenceResults saves
\* its record
diagnosisSaved ==
  /\ currentView = "diagnose"
  /\ recorded < MaxDiagnoses
  /\ \E results \in DashboardResults, data \in FormInputs \cup { NoAdditionalData } :
       recordDiagnosisToLocalStorage(
         diagnosisRecord(recorded + 1, user,
                         toDataURL([upload |-> recorded + 1, tail |-> "RRRQB//2Q=="]),
                         results, data.given, data))
  /\ loadedNow' = FALSE
  /\ UNCHANGED <<currentView, user, dashboardMetrics, recentDiagnoses,
                 dashboardLoading, showsEnvironmentalData>>
  /\ DashboardFrame

\* navigation to /dashboard: the Dashboard mounts and its effect runs
\* loadData
openDashboard ==
  /\ currentView # "dashboard"
  /\ currentView' = "dashboard"
  /\ UNCHANGED <<user, diagnosisRecords, dashboardData, recorded>>
  /\ loadData(user)
  /\ DashboardFrame

\* navigation away: the Dashboard unmounts
leaveDashboard ==
  /\ currentView = "dashboard"
  /\ currentView' \in Views \ { "dashboard" }
  /\ dashboardMetrics' = NoMetrics
  /\ recentDiagnoses' = << >>
  /\ dashboardLoading' = TRUE
  /\ showsEnvironmentalData' = FALSE
  /\ loadedNow' = FALSE
  /\ UNCHANGED <<user, diagnosisRecords, dashboardData, recorded>>
  /\ DashboardFrame

\* the theme toggle replaces the user object: the effect of the mounted
\* Dashboard depends on [user] and runs loadData again
toggleTheme ==
  /\ user' = [user EXCEPT !.theme = IF @ = "light" THEN "dark" ELSE "light"]
  /\ UNCHANGED <<currentView, diagnosisRecords, dashboardData, recorded>>
  /\ IF currentView = "dashboard"
     THEN loadData(user')
     ELSE /\ UNCHANGED <<dashboardMetrics, recentDiagnoses, dashboardLoading,
                         showsEnvironmentalData>>
          /\ loadedNow' = FALSE
  /\ DashboardFrame

\* handleResetDashboard: clearDiagnosisRecords, then the state is reset;
\* loading ends 500 ms later
handleResetDashboard ==
  /\ currentView = "dashboard" /\ ~dashboardLoading
  /\ diagnosisRecords' = << >>
  /\ dashboardData' = NoDashboardData
  /\ dashboardMetrics' = NoMetrics
  /\ recentDiagnoses' = << >>
  /\ showsEnvironmentalData' = FALSE
  /\ dashboardLoading' = TRUE
  /\ loadedNow' = FALSE
  /\ UNCHANGED <<currentView, user, recorded>>
  /\ DashboardFrame

resetLoadingEnds ==
  /\ currentView = "dashboard" /\ dashboardLoading
  /\ dashboardLoading' = FALSE
  /\ loadedNow' = FALSE
  /\ UNCHANGED <<currentView, user, diagnosisRecords, dashboardData, recorded,
                 dashboardMetrics, recentDiagnoses, showsEnvironmentalData>>
  /\ DashboardFrame

DashboardNext ==
  \/ diagnosisSaved
  \/ openDashboard
  \/ leaveDashboard
  \/ toggleTheme
  \/ handleResetDashboard
  \/ resetLoadingEnds

DashboardSpec == DashboardInit /\ [][DashboardNext]_vars

-----------------------------------------------------------------------------
(* ImageUpload in the diagnose view                                        *)

UploadInit ==
  /\ currentView = "diagnose"
  /\ AppStart
  /\ StorageEmpty
  /\ MapperIdle
  /\ ViewsIdle

UploadNext ==
  \/ handleFileSelect
  \/ handleAdditionalDataSubmit
  \/ handleAdditionalDataSkip
  \/ initializeModelSettles
  \/ imageFails
  \/ resetDiagnosis

UploadSpec == UploadInit /\ [][UploadNext]_vars

-----------------------------------------------------------------------------
(* Signing in, signing up and the routes                                   *)

AuthInit ==
  /\ MapperIdle
  /\ currentView = "diagnose"
  /\ AppStart
  /\ StorageEmpty
  /\ ViewsIdle

AuthNext ==
  \/ signIn
  \/ signUp
  \/ hashPasswordSettles
  \/ signInWithGoogle
  \/ logout
  \/ navigate

AuthSpec == AuthInit /\ [][AuthNext]_vars

-----------------------------------------------------------------------------
(* The token service                                                       *)

TokenInit ==
  /\ MapperIdle
  /\ currentView = "diagnose"
  /\ AppStart
  /\ StorageEmpty
  /\ ViewsIdle

TokenNext ==
  \/ tokenSignUp
  \/ tokenSignIn
  \/ tokenHashSettles
  \/ tokenSignInWithGoogle
  \/ tokenGetCurrentUser
  \/ signOut
  \/ clockAdvances

TokenSpec == TokenInit /\ [][TokenNext]_vars

-----------------------------------------------------------------------------
(* The file service                                                        *)

FileInit ==
  /\ MapperIdle
  /\ currentView = "diagnose"
  /\ AppStart
  /\ StorageEmpty
  /\ ViewsIdle

FileNext ==
  \/ fileSignUp
  \/ fileSignIn
  \/ fileReadsUsers
  \/ fileHashSettles
  \/ fileUsersSettle
  \/ cleanExpiredSessions
  \/ createAuthSession
  \/ cookieVerified
  \/ fileSignOut
  \/ fileSignOutSettles
  \/ fileGetsCurrentUser
  \/ clockAdvances

FileSpec == FileInit /\ [][FileNext]_vars

-----------------------------------------------------------------------------
(* The stored accounts, with either service behind AuthContext             *)

AccountsInit ==
  /\ MapperIdle
  /\ currentView = "diagnose"
  /\ AppStart
  /\ StorageEmpty
  /\ ViewsIdle

\* AuthContext is built with one of the two services: the calls of
\* simpleAuthService while fileAuthService was never called, and the calls
\* of fileAuthService while simpleAuthService was never called
AccountsNext ==
  \/ fileStarted = 0 /\ signIn
  \/ fileStarted = 0 /\ signUp
  \/ fileStarted = 0 /\ hashPasswordSettles
  \/ fileStarted = 0 /\ signInWithGoogle
  \/ fileStarted = 0 /\ savesUserPreferences
  \/ fileStarted = 0 /\ resetTestData
  \/ fileStarted = 0 /\ logout
  \/ fileStarted = 0 /\ navigate
  \/ AuthIdle /\ fileSignUp
  \/ AuthIdle /\ fileSignIn
  \/ AuthIdle /\ fileReadsUsers
  \/ AuthIdle /\ fileHashSettles
  \/ AuthIdle /\ fileUsersSettle
  \/ AuthIdle /\ cleanExpiredSessions
  \/ AuthIdle /\ createAuthSession

AccountsSpec == AccountsInit /\ [][AccountsNext]_vars

-----------------------------------------------------------------------------
(* The language-model service                                              *)

LlmInit ==
  /\ MapperIdle
  /\ currentView = "diagnose"
  /\ AppStart
  /\ StorageEmpty
  /\ ViewsIdle

LlmNext ==
  \/ initializeModel
  \/ generateResponse
  \/ pipelineSettles
  \/ initializeModelReturned
  \/ modelAnswers
  \/ clearHistory

LlmSpec == LlmInit /\ [][LlmNext]_vars

-----------------------------------------------------------------------------
(* The service worker                                                      *)

SwInit ==
  /\ MapperIdle
  /\ currentView = "diagnose"
  /\ AppStart
  /\ StorageEmpty
  /\ ViewsIdle

SwNext ==
  \/ install
  \/ fetchEvent
  \/ cacheFirstMatched
  \/ fetchSettles

SwSpec == SwInit /\ [][SwNext]_vars

-----------------------------------------------------------------------------
(* One lookup of the recommendation tables                                 *)

AdviceInit ==
  /\ cardPredictions \in RankedLists
  /\ lookupDone = FALSE
  /\ diseaseInfo = NoEntry
  /\ environmentMap = NoMap
  /\ businessMetrics = metricsOf(0, 0, 0, 0)
  /\ DashboardIdle
  /\ UploadIdle
  /\ AuthIdle
  /\ ServicesIdle
  /\ currentView = "diagnose"
  /\ AppStart
  /\ StorageEmpty
  /\ MapperIdle

\* Inference.processImage lines 172 and 173 for the top prediction, and
\* ResultsCard line 20
lookup ==
  /\ ~lookupDone
  /\ lookupDone' = TRUE
  /\ diseaseInfo' = getDiseaseInfoFromPredictions(cardPredictions)
  /\ environmentMap' = getEnvironmentMap(cardPredictions[1].className)
  /\ businessMetrics' = calculateBusinessMetrics(cardPredictions[1].className, TRUE, 1)
  /\ UNCHANGED cardPredictions
  /\ UNCHANGED <<mapperVars, appVars, dashboardVars, authVars, uploadVars,
                 serviceVars>>

AdviceNext == lookup

AdviceSpec == AdviceInit /\ [][AdviceNext]_vars

-----------------------------------------------------------------------------
(* One call of the mapper                                                  *)

MapperInit ==
  /\ mPreds \in MapperInputs
  /\ mLabels \in Vocabularies
  /\ mTopK \in 0..MaxTopK
  /\ mCall = "none"
  /\ mModel = "null"
  /\ mThrew = FALSE
  /\ mResult = << >>
  /\ currentView = "diagnose"
  /\ AppStart
  /\ StorageEmpty
  /\ ViewsIdle

Simulate ==
  /\ mCall = "none"
  /\ \E randomFactor \in RandomFactors(mLabels) :
       mResult' = simulatePlantDiseaseFromMobileNet(mPreds, mLabels, mTopK, randomFactor)
  /\ mThrew' = simulateThrows(mPreds)
  /\ mCall' = "simulate"
  /\ UNCHANGED <<mPreds, mLabels, mTopK, mModel>>
  /\ UNCHANGED <<appVars, viewVars>>

\* softmax outputs of a custom model over the ten labels: class weights
SoftmaxWeights ==
  { [i \in 1..Len(DEFAULT_LABELS) |-> IF i = j THEN a ELSE b] :
      j \in 1..Len(DEFAULT_LABELS), a \in {1, 5}, b \in {1, 3} }

\* Inference.processImage, steps 3 and 4: the list handed to onResults.
\* model is the component's model: null (mock mode), the MobileNet wrapper
\* (classified is what model.classify returned) or a custom model.
Pipeline ==
  /\ mCall = "none"
  /\ ~mPreds.isNull /\ mPreds.items \in ClassifierOutputs
  /\ mLabels = DEFAULT_LABELS /\ mTopK = INFERENCE_TOP_K
  /\ \/ /\ mPreds.items = << >>
        /\ mModel' = "null"
        /\ mResult' = predictionsWithMetrics(
                         rawPredictions("null", << >>, << >>, << >>))
     \/ /\ mModel' = "mobilenet"
        /\ \E randomFactor \in RandomFactors(DEFAULT_LABELS) :
             mResult' = predictionsWithMetrics(
                          rawPredictions("mobilenet", mPreds.items, << >>, randomFactor))
     \/ /\ mPreds.items = << >>
        /\ mModel' = "custom"
        /\ \E weights \in SoftmaxWeights :
             mResult' = predictionsWithMetrics(
                          rawPredictions("custom", << >>, weights, << >>))
  /\ mThrew' = FALSE
  /\ mCall' = "pipeline"
  /\ UNCHANGED <<mPreds, mLabels, mTopK>>
  /\ UNCHANGED <<appVars, viewVars>>

MapperNext == Simulate \/ Pipeline

MapperSpec == MapperInit /\ [][MapperNext]_vars

-----------------------------------------------------------------------------
(* Properties of the mapper and of the prediction pipeline                 *)

RECURSIVE GCD(_, _)
GCD(a, b) == IF b = 0 THEN a ELSE GCD(b, a % b)

\* two confidences are the same number
SameConfidence(a, b) ==
  /\ ~IsNaN(a.num) /\ ~IsNaN(b.num)
  /\ a.num \div GCD(a.num, a.den) = b.num \div GCD(b.num, b.den)
  /\ a.den \div GCD(a.num, a.den) = b.den \div GCD(b.num, b.den)

SamePredictions(r, s) ==
  /\ Len(r) = Len(s)
  /\ \A i \in 1..Len(r) :
        r[i].label = s[i].label /\ SameConfidence(r[i].confidence, s[i].confidence)

\* the confidences are fractions of one total
CommonTotal(r) == \A i \in 1..Len(r) : r[i].confidence.den = r[1].confidence.den

NonNegative(r) ==
  \A i \in 1..Len(r) : r[i].confidence.num >= 0 /\ r[i].confidence.den > 0

SumsToOne(r) ==
  Len(r) > 0 /\ CommonTotal(r) /\ sumNum(r, Len(r)) = r[1].confidence.den

SumsToAtMostOne(r) ==
  Len(r) > 0 => CommonTotal(r) /\ sumNum(r, Len(r)) <= r[1].confidence.den

LacksClassName == \E i \in 1..Len(mPreds.items) : mPreds.items[i].className = UndefinedName
LacksProbability == \E i \in 1..Len(mPreds.items) : IsNaN(mPreds.items[i].probability)
\* a list of labels with confidences, as a classifier reports it
WellFormedCall == ~mPreds.isNull /\ ~LacksClassName /\ ~LacksProbability
EmptyCall == ~mPreds.isNull /\ mPreds.items = << >>

\* C1 as stated, for the vocabulary and the K the Inference component uses
\* (DEFAULT_LABELS, 3): the returned confidences are non-negative and sum
\* to 1.
C1_SumsToOne ==
  (mCall = "simulate" /\ WellFormedCall
     /\ mLabels = DEFAULT_LABELS /\ mTopK = INFERENCE_TOP_K)
    => NonNegative(mResult) /\ SumsToOne(mResult)

\* C1 (amended): for every well-formed list (including empty), every
\* vocabulary and every K >= 0 the returned confidences are non-negative and
\* sum to at most 1; they sum to 1 exactly when the whole non-empty
\* vocabulary is returned (K >= number of labels), since the scores are
\* normalised over the whole vocabulary before the top-K cut.
C1_NormalisedBeforeTopK ==
  (mCall = "simulate" /\ WellFormedCall)
    => /\ NonNegative(mResult)
       /\ SumsToAtMostOne(mResult)
       /\ Len(mLabels) > 0 => (SumsToOne(mResult) <=> mTopK >= Len(mLabels))
       /\ Len(mLabels) = 0 => mResult = << >>

C1_Witness ==
  /\ mCall = "simulate" /\ WellFormedCall /\ Len(mPreds.items) >= 1
  /\ Len(mLabels) = 2 /\ mTopK = 3
  /\ Len(mResult) = 2 /\ SumsToOne(mResult)
  /\ mResult[1].confidence.num > mResult[2].confidence.num

\* C2 as stated, for the vocabulary and the K the Inference component uses:
\* an empty or malformed input returns exactly the fallback triple.
C2_FallbackOnEmptyOrMalformed ==
  (mCall = "simulate" /\ mLabels = DEFAULT_LABELS /\ mTopK = INFERENCE_TOP_K
     /\ (mPreds.isNull \/ EmptyCall \/ LacksClassName \/ LacksProbability))
    => SamePredictions(mResult, FALLBACK_PREDICTIONS)

\* C2 (amended): a null/undefined list or an entry lacking className ends in
\* the catch block, which returns the first K entries of the fallback triple
\* (the whole triple for K >= 3); an empty list, or entries lacking only
\* probability, do not raise an exception: the normal path returns
\* min(K, number of labels) entries of the vocabulary; for an empty list and
\* DEFAULT_LABELS these differ from the fallback.
C2_FallbackOnlyOnException ==
  mCall = "simulate"
    => /\ (mPreds.isNull \/ LacksClassName)
            => mThrew /\ mResult = SliceTo(FALLBACK_PREDICTIONS, mTopK)
       /\ (~mPreds.isNull /\ ~LacksClassName /\ (EmptyCall \/ LacksProbability))
            => /\ ~mThrew
               /\ Len(mResult) = Min2(mTopK, Len(mLabels))
               /\ \A i \in 1..Len(mResult) : mResult[i].label \in Range(mLabels)
               /\ (EmptyCall /\ mLabels = DEFAULT_LABELS /\ mTopK >= 1)
                    => ~SamePredictions(mResult, SliceTo(FALLBACK_PREDICTIONS, mTopK))

C2_Witness ==
  /\ mCall = "simulate" /\ LacksClassName /\ ~mPreds.isNull
  /\ mLabels = DEFAULT_LABELS /\ mTopK = 3
  /\ mResult = FALLBACK_PREDICTIONS

\* C3: the returned list has at most K entries and at most as many entries
\* as the vocabulary has labels, on the normal and on the fallback path
\* (stated for a vocabulary that is not empty).
C3_LengthBounded ==
  (mCall = "simulate" /\ Len(mLabels) > 0)
    => Len(mResult) <= mTopK /\ Len(mResult) <= Len(mLabels)

\* p >= q for fractions of one total
AtLeast(p, q) == p.den = q.den /\ p.num >= q.num

\* C4: every list handed to onResults (mapper, custom-model and mock path)
\* is ordered by non-increasing probability, has at most 3 entries, and
\* every probability lies in [0, 1].
C4_RankedTop3 ==
  mCall = "pipeline"
    => /\ Len(mResult) <= 3
       /\ \A i \in 1..Len(mResult) :
            /\ mResult[i].probability.den > 0
            /\ 0 <= mResult[i].probability.num
            /\ mResult[i].probability.num <= mResult[i].probability.den
       /\ \A i \in 1..Len(mResult), j \in 1..Len(mResult) :
            i < j => AtLeast(mResult[i].probability, mResult[j].probability)

C4_Witness ==
  /\ mCall = "pipeline" /\ mModel = "mobilenet" /\ Len(mPreds.items) >= 1
  /\ Len(mResult) = 3
  /\ mResult[1].className # "Early Blight"
  /\ mResult[1].probability.num > mResult[2].probability.num
  /\ mResult[2].probability.num > mResult[3].probability.num

-----------------------------------------------------------------------------
(* Properties of the diagnose workflow                                     *)

MockList == predictionsWithMetrics(MOCK_PREDICTIONS)

PreprocessingFailures == { "createImageElement", "preprocessImage" }

\* C5, as stated: a preprocessing failure ends with the hardcoded list
\* delivered through onResults, onError is not called and AppLayout shows
\* no error
C5_FailuresDeliverFallback ==
  delivered.cause \in PreprocessingFailures =>
    /\ delivered.callback = "onResults"
    /\ delivered.results = MockList
    /\ error = ""

ModelLoadSettles == modelLoad # "none" /\ modelLoad' = "none"

\* C5, amended: a model-load failure leaves the component ready with no
\* model, never in status 'error', sets no error and calls nothing, and
\* every list such a component delivers is the hardcoded mock list through
\* onResults; a preprocessing failure is passed to onError, and AppLayout
\* then shows the message with no predictions and no processed image
C5_LoadFailureMocksPreprocessingFailureErrors ==
  /\ [](globalModelStatus # "error" /\ modelStatus # "error")
  /\ [][ModelLoadSettles =>
          /\ globalModelStatus' = "ready"
          /\ globalModelCache' \in { "null", "mobilenet" }
          /\ error' = error /\ predictions' = predictions
          /\ delivered'.callback = "none"]_vars
  /\ [](delivered.callback = "onResults" /\ delivered.run.model = "null" =>
          delivered.cause = "mock" /\ delivered.results = MockList)
  /\ [](delivered.cause \in PreprocessingFailures =>
          /\ delivered.callback = "onError"
          /\ error = errorMessage(delivered.cause) /\ error # ""
          /\ predictions = << >>
          /\ processedImageUrl = NoUrl)

\* the model failed to load and, later, an image failed to load too
C5_Witness ==
  /\ globalModelStatus = "ready" /\ globalModelCache = "null"
  /\ delivered.run.model = "null"
  /\ delivered.cause \in PreprocessingFailures
  /\ delivered.callback = "onError"

\* C6: each history holds at most 100 entries, newest first, and they are
\* exactly the most recently recorded ones; a recording step puts the new
\* entry first and keeps the others, in order, dropping only the last of a
\* full history
C6_HistoryCappedNewestFirst ==
  /\ [](/\ Len(diagnosisRecords) = Min2(recorded, 100)
        /\ \A i \in 1..Len(diagnosisRecords) :
             diagnosisRecords[i] = sampleRecord(recorded - i + 1)
        /\ Len(diagnoses) = Min2(saved, 100)
        /\ \A i \in 1..Len(diagnoses) :
             diagnoses[i] = sampleDiagnosis(saved - i + 1))
  /\ [][/\ diagnosisRecords' # diagnosisRecords =>
             Tail(diagnosisRecords') = SliceTo(diagnosisRecords, 99)
        /\ diagnoses' # diagnoses =>
             Tail(diagnoses') = SliceTo(diagnoses, 99)]_vars

\* both histories are full and have evicted
C6_Witness ==
  /\ recorded > 100 /\ Len(diagnosisRecords) = 100
  /\ saved > 100 /\ Len(diagnoses) = 100

RecordsOfUpload(u) ==
  Cardinality({ i \in DOMAIN diagnosisRecords : diagnosisRecords[i].imageUrl.upload = u })

\* C7, as stated, for the upload still selected: once its classification
\* has completed with a list it has exactly one record in the history
C7_ExactlyOneRecordPerUpload ==
  \A u \in 1..MaxUploads :
    selectedImage.upload = u /\ resultsDelivered[u] > 0 =>
      RecordsOfUpload(u) = 1

\* C8, as stated: the classifier is called at most once for an upload
C8_ClassifierOncePerImage ==
  \A u \in 1..MaxUploads : classifierCalls[u] <= 1

ResolvesAway == delivered'.callback = "onResults" /\ currentView # "diagnose"

-----------------------------------------------------------------------------
(* Properties of the recommendation lookup                                 *)

topLabel == cardPredictions[1].className

\* C11: for every label of the vocabulary that is ranked first, the three
\* lookups return the entry the tables hold under that very label
C11_LookupReturnsOwnEntry ==
  lookupDone =>
    /\ topLabel \in DOMAIN DISEASE_MAPPING
    /\ diseaseInfo = DISEASE_MAPPING[topLabel]
    /\ topLabel \in DOMAIN DISEASE_ENVIRONMENT_MAP
    /\ environmentMap = DISEASE_ENVIRONMENT_MAP[topLabel]
    /\ businessMetrics = DISEASE_ENVIRONMENT_MAP[topLabel].business_metrics


-----------------------------------------------------------------------------
(* Properties of the dashboard                                             *)

\* the metrics the Dashboard shows against an aggregate: the counts, the
\* sums and the frequencies, and the averages when their cards are shown
ShowsAggregate(shown, aggregate) ==
  /\ shown.totalDiagnoses = aggregate.totalDiagnoses
  /\ shown.healthyPlants = aggregate.healthyPlants
  /\ shown.diseasedPlants = aggregate.diseasedPlants
  /\ shown.waterSaved = aggregate.waterSaved
  /\ shown.pesticidesAvoided = aggregate.pesticidesAvoided
  /\ shown.diseaseFrequency = aggregate.diseaseFrequency
  /\ showsEnvironmentalData =>
       /\ shown.averageSoilPH = aggregate.averageSoilPH
       /\ shown.averageTemperature = aggregate.averageTemperature
       /\ shown.averageHumidity = aggregate.averageHumidity

\* C12: whenever the Dashboard has just loaded its data, the metrics it
\* shows are the aggregate of the history that is in storage at that moment
C12_ShowsAggregateOfStoredHistory ==
  loadedNow => ShowsAggregate(dashboardMetrics, calculateDashboardMetrics(diagnosisRecords))


-----------------------------------------------------------------------------
(* Properties of ImageUpload                                               *)

Acceptable(file) ==
  /\ file.type \in { "image/jpeg", "image/png", "image/webp" }
  /\ file.size <= 10 * 1024 * 1024

\* C13: a file handed to ImageUpload reaches onImageSelect exactly when its
\* type is JPEG, PNG or WebP and its size is at most 10 MB, the limit
\* included; any other file only sets the error message of ImageUpload and
\* leaves the state of AppLayout as it was
C13_SelectsValidFilesOnly ==
  [][filesOffered' # filesOffered =>
       IF Acceptable(offeredFile')
       THEN /\ uploads' = uploads + 1
            /\ selectedImage'.upload = uploads'
            /\ predictions' = << >>
            /\ showAdditionalDataForm' /\ ~readyForInference'
            /\ additionalData' = NoAdditionalData
            /\ uploadError' = ""
       ELSE /\ uploadError' = INVALID_FILE_MESSAGE
            /\ UNCHANGED <<layoutVars, uploads>>]_vars

\* a file of exactly 10 MB has been selected after a rejected one
C13_Witness ==
  /\ filesOffered > 1
  /\ offeredFile.size = 10 * 1024 * 1024 /\ offeredFile.type = "image/webp"
  /\ selectedImage.upload = 1 /\ showAdditionalDataForm
  /\ uploadError = ""

-----------------------------------------------------------------------------
(* Properties of the mapper's rank order                                   *)

labelsOf(result) == [ i \in 1..Len(result) |-> result[i].label ]

\* MobileNet reports one class, broccoli, with probability 0.1
BroccoliAlone ==
  [isNull |-> FALSE, items |-> << [className |-> CN_broccoli, probability |-> 1] >>]

CalledOnBroccoliAlone ==
  /\ mCall = "simulate" /\ mPreds = BroccoliAlone
  /\ mLabels = DEFAULT_LABELS /\ mTopK = INFERENCE_TOP_K

\* a second call with the arguments of the call made can return the labels
\* in another order
OrderCanDiffer ==
  \E randomFactor \in RandomFactors(mLabels) :
     labelsOf(simulatePlantDiseaseFromMobileNet(mPreds, mLabels, mTopK, randomFactor))
       # labelsOf(mResult)

\* C14: the rank order of the mapper is not a function of its arguments:
\* for the input (broccoli, 0.1), DEFAULT_LABELS and K = 3, whatever order
\* one call returned, an admissible jitter assignment makes a second call
\* with identical arguments return the labels in a different order
C14_RankOrderDependsOnJitter == CalledOnBroccoliAlone => OrderCanDiffer

\* the call on (broccoli, 0.1) has returned three labels, and another
\* jitter assignment ranks them differently
C14_Witness ==
  /\ CalledOnBroccoliAlone /\ Len(mResult) = INFERENCE_TOP_K /\ ~mThrew
  /\ OrderCanDiffer

\* what the forEach over the MobileNet predictions of the call has added up
analysisOfCall ==
  analyzeAll([ scores |-> initialScores(mLabels),
               totalConfidence |-> 0,
               healthyIndicators |-> 0,
               diseaseIndicatorScore |-> 0,
               plantRelatedScore |-> 0 ], mPreds.items, 1)

\* plantRatio < 0.15 in a call that reaches the comparison
LowPlantRatio ==
  /\ ~simulateThrows(mPreds)
  /\ RatioLt(analysisOfCall.plantRelatedScore,
             MathMax(analysisOfCall.totalConfidence, Dec(10)), 15)

LOW_PLANT_ORDER == << "Early Blight", "Late Blight", "Healthy" >>

\* C16: with DEFAULT_LABELS and K = 3, a call whose plant-relatedness ratio
\* is below 0.15 returns Early Blight, Late Blight, Healthy in exactly that
\* order, whatever the jitter
C16_LowPlantRatioOrder ==
  (mCall = "simulate" /\ mLabels = DEFAULT_LABELS /\ mTopK = INFERENCE_TOP_K
     /\ LowPlantRatio)
    => labelsOf(mResult) = LOW_PLANT_ORDER

\* a call on two classes that are not plant-related has returned
C16_Witness ==
  /\ mCall = "simulate" /\ mLabels = DEFAULT_LABELS /\ mTopK = INFERENCE_TOP_K
  /\ Len(mPreds.items) = 2 /\ mPreds.items[1].className = CN_teapot
  /\ LowPlantRatio
  /\ labelsOf(mResult) = LOW_PLANT_ORDER

-----------------------------------------------------------------------------
(* Properties of the model load                                            *)

\* initializeModel calls loadModel in this step
LoadStarts == modelLoad # "owned" /\ modelLoad' = "owned"

\* the pending load settles in this step
LoadSettles == modelLoad # "none" /\ modelLoad' = "none"

\* C17: the model load is started at most once in the lifetime of the page:
\* loadModel is called only while globalModelStatus is 'never-loaded' and
\* the call leaves that status for good; the status never becomes 'error';
\* the load, failed or not, ends with status 'ready' (a failed one with no
\* model) and no load is started after it
C17_ModelLoadedAtMostOnce ==
  /\ [][LoadStarts =>
          globalModelStatus = "never-loaded" /\ globalModelStatus' = "loading"]_vars
  /\ [][globalModelStatus # "never-loaded" =>
          globalModelStatus' # "never-loaded"]_vars
  /\ [](globalModelStatus # "error" /\ (mounted => modelStatus # "error"))
  /\ [][LoadSettles => globalModelStatus' = "ready"]_vars
  /\ [][globalModelStatus = "ready" =>
          /\ modelLoad' = "none" /\ globalModelStatus' = "ready"
          /\ globalModelCache' = globalModelCache]_vars

\* the load failed, a classification started in mock mode, and the
\* component was unmounted and mounted again without a second load
C17_Witness ==
  /\ mounted /\ modelLoad = "none"
  /\ globalModelStatus = "ready" /\ globalModelCache = "null"
  /\ modelStatus = "ready" /\ model = "null"
  /\ \E i \in DOMAIN runs : ~runs[i].owner /\ runs[i].model = "null"

-----------------------------------------------------------------------------
(* Properties of the additional-data form                                  *)

\* an image is selected and its form has been neither submitted nor skipped
FormPending == selectedImage # NoImage /\ ~readyForInference

RunsOfImage(image) == { i \in DOMAIN runs : runs[i].image = image }

\* C18: the classifier is never invoked for a selected image before the
\* user has submitted or skipped the form for that image: a selection shows
\* the form and clears readyForInference, only submitting or skipping the
\* form of the selected image sets it, a processImage call starts only for
\* the selected image with readyForInference set, and the classifier runs
\* only inside such a call
C18_NoClassificationBeforeForm ==
  /\ [](FormPending =>
          /\ classifierCalls[selectedImage.upload] = 0
          /\ RunsOfImage(selectedImage) = {})
  /\ [][uploads' # uploads =>
          /\ selectedImage'.upload = uploads'
          /\ ~readyForInference' /\ showAdditionalDataForm']_vars
  /\ [][~readyForInference /\ readyForInference' =>
          /\ showAdditionalDataForm /\ ~showAdditionalDataForm'
          /\ selectedImage' = selectedImage /\ selectedImage # NoImage]_vars
  /\ [][runsStarted' # runsStarted =>
          /\ readyForInference' /\ selectedImage' # NoImage
          /\ runs'[Len(runs')].image = selectedImage']_vars
  /\ [][\A u \in DOMAIN classifierCalls :
           classifierCalls'[u] # classifierCalls[u] =>
             \E i \in DOMAIN runs : runs[i].image.upload = u]_vars

\* the form of a second image is open while a classification of the first
\* image, already classified once, is still in flight
C18_Witness ==
  /\ selectedImage.upload = 2 /\ showAdditionalDataForm /\ FormPending
  /\ classifierCalls[1] > 0 /\ classifierCalls[2] = 0
  /\ \E i \in DOMAIN runs : runs[i].image.upload = 1

-----------------------------------------------------------------------------
(* Properties of AuthContext and of the routes                             *)

\* the call whose hashPassword settles in this step
SettlingCalls == { i \in DOMAIN authCalls : authCalls' = RemoveAt(authCalls, i) }

SignUpResolves ==
  /\ settled'.method = "signUp" /\ settled'.outcome = "resolved"
  /\ Len(authCalls') < Len(authCalls)

\* C15: after a successful signUp the new user is logged in without a
\* separate signIn: the state of AuthContext is {user: the new user,
\* loading: false, error: null}, every protected route renders AppLayout,
\* and the sign-in and sign-up routes lead to /dashboard
C15_SignUpLogsIn ==
  [][SignUpResolves =>
       /\ authState' = [user |-> settled'.user, loading |-> FALSE, error |-> ""]
       /\ authState'.user # NullUser
       /\ \E i \in SettlingCalls :
            /\ authCalls[i].method = "signUp"
            /\ authState'.user.email = toLowerCase(authCalls[i].email)
            /\ authState'.user.displayName = trim(authCalls[i].displayName)
            /\ authState'.user.id.n = authCalls[i].now
       /\ toUser(storedUsers'.users[Len(storedUsers'.users)]) = authState'.user
       /\ \A path \in ProtectedPaths :
            routeElement(path, authState').element = "AppLayout"
       /\ location \in { "/signin", "/signup" } => location' = "/dashboard"]_vars

\* Ann has signed up with "Ann@farm.io" and is on the dashboard
C15_Witness ==
  /\ settled.method = "signUp" /\ settled.outcome = "resolved"
  /\ authState.user.email = toLowerCase(chars_new_email)
  /\ authState.user.displayName = <<"A","n","n">>
  /\ ~authState.loading /\ authState.error = ""
  /\ location = "/dashboard" /\ screen = "AppLayout"

\* C19 as stated: the protected views render AppLayout only when the user
\* is set and loading is false, with no user they redirect to /signin, and
\* /signin and /signup redirect to /dashboard whenever a user is set
C19_NullUserRedirected ==
  /\ screen = "AppLayout" => authState.user # NullUser /\ ~authState.loading
  /\ authState.user = NullUser =>
       \A path \in ProtectedPaths : resolve(path, authState) = "/signin"
  /\ authState.user = NullUser => location \notin ProtectedPaths
  /\ authState.user # NullUser =>
       /\ location \notin { "/signin", "/signup" }
       /\ \A path \in { "/signin", "/signup" } : resolve(path, authState) = "/dashboard"

\* C19, amended: the protected views render AppLayout only when the user
\* is set and loading is false; while loading is true they render the
\* loading screen and do not redirect; with loading false and no user they
\* redirect to /signin; /signin and /signup redirect to /dashboard whenever
\* a user is set
C19_ProtectedRoutes ==
  /\ screen = "AppLayout" =>
       /\ location \in ProtectedPaths
       /\ authState.user # NullUser /\ ~authState.loading
  /\ \A path \in ProtectedPaths :
       /\ resolve(path, authState) =
            IF authState.loading THEN path
            ELSE IF authState.user = NullUser THEN "/signin"
            ELSE path
       /\ routeElement(path, authState).element =
            IF authState.loading THEN "Loading"
            ELSE IF authState.user = NullUser THEN "Navigate"
            ELSE "AppLayout"
  /\ location \in ProtectedPaths =>
       IF authState.loading THEN screen = "Loading"
       ELSE authState.user # NullUser /\ screen = "AppLayout"
  /\ authState.user # NullUser =>
       /\ location \notin { "/signin", "/signup" }
       /\ \A path \in { "/signin", "/signup" } : resolve(path, authState) = "/dashboard"

\* a sign-in is pending and the browser went back to /diagnose: the loading
\* screen is shown to a visitor who is not signed in
C19_Witness ==
  /\ location = "/diagnose" /\ screen = "Loading"
  /\ authState.user = NullUser /\ authState.loading
  /\ Len(authCalls) > 0

CallRejects == settled'.outcome = "rejected"

\* what a rejected call leaves in AuthContext
FailureState ==
  /\ settled'.method \in { "signIn", "signUp", "signInWithGoogle" }
  /\ settled'.message # ""
  /\ authState' = [user |-> authState.user, loading |-> FALSE,
                   error |-> settled'.message]

\* the key was absent and now holds the list with the test user alone
ListInitialised ==
  /\ ~storedUsers.present /\ storedUsers'.present
  /\ Len(storedUsers'.users) = 1
  /\ storedUsers'.users[1].email = chars_seed_email
  /\ storedUsers'.users[1].passwordHash = hashPassword(chars_password)

\* C20 as stated: when signIn, signUp or signInWithGoogle fails, the user
\* held before is left unchanged, error is the failure message, loading is
\* false, the error is rethrown, and the stored user list is not modified
C20_FailureLeavesStoredListAlone ==
  [][CallRejects => FailureState /\ storedUsers' = storedUsers]_vars

\* C20, amended: when signIn, signUp or signInWithGoogle fails, the user
\* held before is left unchanged, error is the failure message, loading is
\* false and the error is rethrown; no account is added, changed or
\* removed, but a call that read the user list while the key was absent
\* has stored the initial list with the test user
C20_FailureKeepsUserAndAccounts ==
  [][CallRejects =>
       /\ FailureState
       /\ storedUsers' = storedUsers \/ ListInitialised]_vars

\* a wrong password was rejected while another user was signed in: the
\* user is kept and the message is set
C20_Witness ==
  /\ settled.outcome = "rejected" /\ settled.message = INCORRECT_PASSWORD
  /\ authState.user # NullUser /\ ~authState.loading
  /\ authState.error = INCORRECT_PASSWORD
  /\ storedUsers.present

-----------------------------------------------------------------------------
(* The token service: sign-out and expiry                                  *)

\* the step is a signOut that found a current token
SignsOut == tokenReturned'.op = "signOut" /\ currentToken # NoToken

\* a record of the token list that the step added
IssuedInStep(t) ==
  /\ \E i \in DOMAIN authTokens' : authTokens'[i] = t
  /\ \A i \in DOMAIN authTokens : authTokens[i] # t

\* validateToken returns a user id for this token now
Validates(token) == validateToken(authTokens, token, clock).userId # NoUserId

\* C21: signOut removes the current token from the token list and from the
\* current-token key, so that getCurrentUser returns null and the token
\* does not validate until a sign-in issues it again; validateToken returns
\* a user id only for a stored token whose expiresAt is later than now,
\* and expiresAt is seven days after the token was created
C21_SignOutRevokesToken ==
  /\ [](\A token \in Tokens :
          /\ token \in revoked => ~Validates(token)
          /\ Validates(token) =>
               \E i \in DOMAIN authTokens :
                  /\ authTokens[i].token = token
                  /\ authTokens[i].expiresAt > clock
                  /\ authTokens[i].userId =
                       validateToken(authTokens, token, clock).userId)
  /\ [][/\ SignsOut =>
            /\ currentToken' = NoToken
            /\ \A i \in DOMAIN authTokens' : authTokens'[i].token # currentToken
            /\ getCurrentUser(usersDb', authTokens', currentToken', clock').user
                 = NoStoredUser
        /\ \A i \in DOMAIN authTokens' :
             IssuedInStep(authTokens'[i]) =>
               authTokens'[i].expiresAt = clock + 7 * 24 * 60 * 60 * 1000]_vars

\* a user signed in, signed out, and getCurrentUser returned null while the
\* token another sign-in had issued before is still stored and unexpired
C21_Witness ==
  /\ revoked # {}
  /\ tokenReturned.op = "getCurrentUser" /\ tokenReturned.user = NoStoredUser
  /\ \E token \in Tokens \ revoked : Validates(token)
  /\ clock > 1

-----------------------------------------------------------------------------
(* The file service: the current user                                      *)

\* the session of the current token, as getSessionInfo finds it
CurrentSession ==
  findToken(fileSessions, getCurrentToken(sessionCookie, currentSession), 1)

\* C22 as stated: fileAuthService.getCurrentUser returns the user who owns
\* the current session token whenever that token is stored and unexpired
\* (getSessionInfo reports isAuthenticated true), and returns null only
\* when there is no valid session
C22_CurrentUserOfValidSession ==
  fileReturned.op = "getCurrentUser" =>
    /\ fileReturned.authenticated =>
         /\ fileReturned.user # NoStoredUser
         /\ CurrentSession # 0 =>
              fileReturned.user.id = fileSessions[CurrentSession].userId
    /\ fileReturned.user = NoStoredUser => ~fileReturned.authenticated

-----------------------------------------------------------------------------
(* The language-model service: a call during a load                       *)

\* C23 as stated: a generateResponse call made while the model is not ready
\* loads it and then returns a response; a call that arrives while the
\* initializeModel of another caller is in flight waits for that load and
\* does not fail with 'Q&A model not available'
C23_CallWaitsForLoadInFlight ==
  llmReturned.method = "generateResponse" /\ llmReturned.duringLoad =>
    /\ llmReturned.message # MODEL_UNAVAILABLE
    /\ qaModel # NoModel => llmReturned.outcome = "resolved"

-----------------------------------------------------------------------------
(* The service worker: cache first                                         *)

\* a GET request under /models/ or for a static asset
CacheFirstRequest(method, pathname) ==
  /\ method = "GET"
  /\ startsWith(pathname, <<"/","m","o","d","e","l","s","/">>)
       \/ isStaticAsset(pathname)

\* C24: a GET request under /models/ or for a static asset whose response
\* was in the cache when the request arrived is answered from the cache
\* and the network is not asked; a network response is stored only when
\* it is ok; no handler ever answers a request that is not a GET
C24_CacheFirstWithoutFetch ==
  /\ CacheFirstRequest(swServed.method, swServed.pathname)
       /\ swServed.cachedAtEvent =>
       swServed.source = "cache" /\ ~swServed.fetched
  /\ \A name \in CacheNames : \A e \in swCaches[name] : e.ok
  /\ swServed.method # "GET" => ~swServed.intercepted
  /\ \A i \in DOMAIN swHandlers :
       /\ swHandlers[i].request.method = "GET"
       /\ CacheFirstRequest("GET", swHandlers[i].request.pathname)
            /\ swHandlers[i].cachedAtEvent => ~swHandlers[i].fetched

\* the weights were fetched and stored by one request and the next request
\* for them was answered from the cache
C24_Witness ==
  /\ ~swInstalled
  /\ swServed.pathname = url_weights_bin /\ swServed.cachedAtEvent
  /\ swServed.source = "cache" /\ ~swServed.fetched
  /\ swStarted >= 2

-----------------------------------------------------------------------------
(* Inference: every mounted instance answers                               *)

\* Inference is mounted with an image
MountedWithImage == mounted /\ selectedImage # NoImage

\* the mounted instance has called onResults or onError, or has left the tree
Answered ==
  \/ ~mounted
  \/ delivered.callback \in { "onResults", "onError" }
  \/ predictions # << >> \/ error # ""

\* C25 as stated: every Inference instance that is mounted with an image
\* eventually calls onResults or onError, also when it was mounted while
\* the load that an earlier instance started was still in flight
C25_MountedInstanceAnswers == MountedWithImage ~> Answered

-----------------------------------------------------------------------------
(* simpleAuthService: who is let into an account                           *)

\* the stored accounts after the step
AccountsAfter == storedUsers'.users

\* the step returns the account at index a as the authenticated user
ReturnsAccount(a) ==
  /\ settled'.outcome = "resolved"
  /\ settled'.user # NullUser
  /\ settled'.user.id = AccountsAfter[a].id

\* the step settles a signIn or signUp call that was given a password
\* hashing to this hash
GivenPasswordFor(hash) ==
  \E i \in DOMAIN authCalls :
     /\ authCalls' = RemoveAt(authCalls, i)
     /\ authCalls[i].method = settled'.method
     /\ hashPassword(authCalls[i].password) = hash

NoPasswordHash == [sha256 |-> << >>]

\* C26 as stated: an account created through signUp is returned as the
\* authenticated user only by an operation that was given a password
\* hashing to the stored hash, and an account created by signInWithGoogle,
\* whose hash is empty, is never entered through signIn
C26_PasswordAccountNeedsPassword ==
  [][\A a \in DOMAIN AccountsAfter :
       ReturnsAccount(a) =>
         /\ AccountsAfter[a].id.prefix = "user_" =>
              /\ settled'.method \in { "signIn", "signUp" }
              /\ GivenPasswordFor(AccountsAfter[a].passwordHash)
         /\ AccountsAfter[a].passwordHash = NoPasswordHash =>
              settled'.method # "signIn"]_vars

\* no two users of a stored list with the same email, letter case aside, and
\* no two with the same id
UniqueUsers(users) ==
  \A i, j \in DOMAIN users :
    i # j => /\ toLowerCase(users[i].email) # toLowerCase(users[j].email)
             /\ users[i].id # users[j].id

=============================================================================
